---- MODULE Spec2Model ----
(***************************************************************************)
(* A model of the synchronisation core of the canvas note application:     *)
(*   - the debounced cache writer (scheduleCacheWrite and its timer),      *)
(*   - the notes delta reconciler of useFirebaseCanvasStore                *)
(*     (initializeFirebaseSync: buffering, snapshot refresh, flush),       *)
(*   - the store actions of createCanvasStoreCore and of                   *)
(*     useFirebaseCanvasStore (select, update).                            *)
(* The program is single threaded: every action below is one callback or   *)
(* one synchronous stretch of a handler between two suspension points.     *)
(***************************************************************************)
EXTENDS Integers, Sequences, FiniteSets, TLC

\* ------------------------------------------------------------------ bounds
\* How far the clock of the cache-writer specification runs, in ticks.
MaxTicks == 13
\* How many scheduleCacheWrite calls one behaviour makes at most.
MaxRequests == 3
\* How many initializeFirebaseSync calls one behaviour makes at most.
MaxSessions == 2
\* How many times the reconciler publishes the notes (and so calls
\* scheduleCacheWrite) in one behaviour at most.
MaxPublishes == 1
\* How many store calls (select, update) one behaviour makes at most.
MaxCalls == 3
\* How far the clock of the zIndex-timer specification runs, in retry delays.
MaxZTicks == 8

\* ------------------------------------------------------- program constants
CACHE_MIN_INTERVAL_MS == 10000
CACHE_DEBOUNCE_MS == 2000
\* requestIdle(run, { timeout: 2000 })
IDLE_TIMEOUT_MS == 2000
\* The localStorage tier keeps the first 50 notes, 20 images and 10 files.
LS_MAX_NOTES == 50
LS_MAX_IMAGES == 20
LS_MAX_FILES == 10
\* setTimeout(commitZIndex, 1000) and setTimeout(commitZIndex, 250)
ZINDEX_DEBOUNCE_MS == 1000
ZINDEX_RETRY_MS == 250

\* The clock advances in steps of half a debounce window.
TickMs == CACHE_DEBOUNCE_MS \div 2
\* Date.now() is far beyond CACHE_MIN_INTERVAL_MS when the page loads, so
\* that lastCacheWriteAt = 0 imposes no wait on the first write.
StartTime == CACHE_MIN_INTERVAL_MS
MaxTime == StartTime + MaxTicks * TickMs

\* ----------------------------------------------------------------- values
\* null for a string-valued field
None == "none"
\* A nullable object is the empty set (null) or the set of the one object.
Null == {}
Some(x) == {x}
The(s) == CHOOSE x \in s : TRUE
NoTimer == -1
NoUser == "nouser"
Users == {"u1"}
ImageIds == {"i1"}
FileIds == {"f1"}
Ids == {"n1", "n2"}
\* zIndex?: number -- the value of an absent zIndex
Undefined == -1

\* No event recorded for any id (history).
NoEvents == [i \in Ids |-> Null]

Max(a, b) == IF a >= b THEN a ELSE b

VARIABLES
  \* --- environment
  now,               \* Date.now(), in ms
  hidden,            \* document.hidden
  hasRequestIdle,    \* typeof window.requestIdleCallback === 'function'
  \* --- module-level state of the cache writer
  cacheWriteTimer,   \* NoTimer, or the time at which the pending setTimeout fires
  pendingCacheWrite, \* Null, or Some([userId, payload, req])
  lastCacheWriteAt,
  idleRuns,          \* the `run` closures handed to requestIdle / setTimeout(run, 0)
  idbData,           \* IndexedDB tier: user -> Some(payload last saved), or Null
  lsRemoteCache,     \* localStorage tier: remoteCache:<user> -> Some(payload), or Null
  \* --- state of the store
  notes, images, files, isDarkMode,
  selectedNoteId, selectedImageId, selectedFileId,
  currentUserId, unsubscribers,
  notesReady, imagesReady, filesReady, settingsReady, remoteReady,
  \* --- closure state of one initializeFirebaseSync session
  notesById,           \* Map<string, Note>, in insertion order
  notesFlushRaf,       \* TRUE while an animation frame is requested
  pendingFrames,       \* animation frames requested and neither run nor cancelled
  notesSyncActive,
  isBufferingNotes,
  isRefreshingNotes,
  bufferedNotesEvents, \* Map<string, NotesDeltaEvent>, in insertion order
  fetchInFlight,       \* the session's fetchNotesOnce promise is pending
  staleFetches,        \* pending fetches of sessions since replaced
  wasConnected,
  reconnectTimer,      \* TRUE while the 500 ms reconnect timer is pending
  reconnectTimeouts,   \* the timers of the connected listener set and neither run nor cleared: TRUE once due
  cacheLoadPending,    \* the users whose loadCache() has not settled yet
  sessions,            \* initializeFirebaseSync calls so far
  \* --- history of the reconciler (not program state)
  lastDelivered,       \* id -> the last event delivered for it while buffering,
                       \*       with n = 1 for one event so far, 2 for more
  lastNonAdded,        \* id -> the last such event that is no 'added'
  lastRefresh,         \* Null, or what the refresh that has just settled worked on
  lastDelta,           \* Null, or the delta event just delivered and what it met
  \* --- the store's surroundings
  authUid,           \* auth.currentUser?.uid, or NoUser
  storeImpl,         \* which store the state above belongs to: "core" is one
                     \* built by createCanvasStoreCore, "firebase" is
                     \* useFirebaseCanvasStore
  zIndexTimer,       \* globalThis.__zIndexTimer: Null, or Some(the pending commit)
  remoteCalls,       \* adapter / Firebase write promises not yet settled
  \* --- history of the store calls (not program state)
  callLog,           \* the last two store calls, if nothing else ran since
  nCalls,            \* store calls so far
  \* --- history variables (not program state)
  reqCount,          \* scheduleCacheWrite calls so far
  lastReqAt,         \* time of the last scheduleCacheWrite call
  windows,           \* per debounce window: [fate, last, n, tight]
  cacheWrites,       \* one record per executed `run`
  tornDown,          \* cleanupFirebaseSync ran and no request was made since
  lastTeardown,      \* what the last cleanupFirebaseSync() called on its own found
                     \* pending or attached; {} once a session or a request follows
  \* --- the storage adapters
  lsData,            \* localStorage['interectnote-storage']: Null, or Some(blob)
  toasts,            \* toast.error calls so far
  fbCache,           \* FirebaseStorageAdapter.cache.notes, in insertion order
  microtasks,        \* continuations of store actions suspended at an await
  unhandled,         \* promise rejections no handler took
  \* --- history of the adapter and store calls (not program state)
  issuedIds,         \* the ids generateId has handed out
  failedImages,      \* the image ids whose saveImage met a full storage
  opLog,             \* the last two calls, if nothing else ran since
  nOps,              \* calls so far
  \* --- the mode selector (StoreProvider)
  authLoading,       \* useAuth().loading
  authUser,          \* useAuth().user?.uid, or NoUser
  authAnonymous,     \* useAuth().user?.isAnonymous
  sharedCanvasId,    \* useSharedCanvasStore's canvasId: None (null), "" or an id
  activeMode,        \* the store useAppStore returned at the last render
  committed,         \* Null, or Some(what the last run of the effect closed over)
  liveListeners,     \* history: the sessions whose listeners are attached
  \* --- the undo/redo history (useHistoryStore)
  undoStack, redoStack,
  currentState,      \* a snapshot, or None (null)
  lastHistoryOp,     \* history: the last call on useHistoryStore
  \* --- one call of computeJoystickVelocity
  joyInput,          \* Null, or Some(the arguments)
  joyResult          \* Null, or Some(what the call returned)

envVars == <<now, hidden, hasRequestIdle>>
writerVars == <<cacheWriteTimer, pendingCacheWrite, lastCacheWriteAt, idleRuns,
                idbData, lsRemoteCache>>
storeVars == <<notes, images, files, isDarkMode,
               selectedNoteId, selectedImageId, selectedFileId,
               currentUserId, unsubscribers,
               notesReady, imagesReady, filesReady, settingsReady, remoteReady>>
syncVars == <<notesById, notesFlushRaf, pendingFrames, notesSyncActive, isBufferingNotes,
              isRefreshingNotes, bufferedNotesEvents, fetchInFlight, staleFetches,
              wasConnected, reconnectTimer, reconnectTimeouts, cacheLoadPending, sessions,
              lastDelivered, lastNonAdded, lastRefresh, lastDelta>>
histVars == <<reqCount, lastReqAt, windows, cacheWrites, tornDown, lastTeardown>>
apiVars == <<authUid, storeImpl, zIndexTimer, remoteCalls, callLog, nCalls>>
adapterVars == <<lsData, toasts, fbCache, microtasks, unhandled,
                 issuedIds, failedImages, opLog, nOps>>
modeVars == <<authLoading, authUser, authAnonymous, sharedCanvasId, activeMode,
              committed, liveListeners>>
historyVars == <<undoStack, redoStack, currentState, lastHistoryOp>>
joyVars == <<joyInput, joyResult>>
sideVars == <<historyVars, joyVars>>
extVars == <<adapterVars, modeVars, sideVars>>
vars == <<envVars, writerVars, storeVars, syncVars, histVars, apiVars, extVars>>

\* The state of what the specification at hand leaves alone: nothing stored
\* by the local adapter, no call made.
AdapterIdle ==
  /\ lsData = {}
  /\ toasts = 0
  /\ fbCache = <<>>
  /\ microtasks = <<>>
  /\ unhandled = 0
  /\ issuedIds = {}
  /\ failedImages = {}
  /\ opLog = <<>>
  /\ nOps = 0
\* The provider before its first render: auth still loading, no user, no
\* shared canvas.
ModeIdle ==
  /\ authLoading = TRUE
  /\ authUser = "nouser"
  /\ authAnonymous = FALSE
  /\ sharedCanvasId = "none"
  /\ activeMode = "unmounted"
  /\ committed = {}
  /\ liveListeners = {}
\* An empty undo/redo history, as created.
HistoryIdle ==
  /\ undoStack = <<>>
  /\ redoStack = <<>>
  /\ currentState = "none"
  /\ lastHistoryOp = [op |-> "none", full |-> FALSE]
\* No call of computeJoystickVelocity at hand.
JoystickIdle ==
  /\ joyInput = {}
  /\ joyResult = {}
SideIdle == HistoryIdle /\ JoystickIdle
ExtInit == AdapterIdle /\ ModeIdle /\ SideIdle

\* ================================================= debounced cache writer

\* const minWait = Math.max(0, lastCacheWriteAt + CACHE_MIN_INTERVAL_MS - now);
\* const delay = Math.max(CACHE_DEBOUNCE_MS, minWait);
CacheDelay(t, last) ==
  Max(CACHE_DEBOUNCE_MS, Max(0, last + CACHE_MIN_INTERVAL_MS - t))

\* A writer that queues: a request made while one is pending is dropped.
KeepFirstPending(userId, payload, req) ==
  IF pendingCacheWrite # Null
  THEN pendingCacheWrite
  ELSE Some([userId |-> userId, payload |-> payload, req |-> req])

\* pendingCacheWrite = { userId, payload }: the new request replaces the
\* pending one. req numbers the scheduleCacheWrite call (history only).
NewPending(userId, payload, req) ==
  Some([userId |-> userId, payload |-> payload, req |-> req])

\* History of the debounce windows. A window opens with a request made while
\* no timer is pending; a request made while the timer is pending re-arms it
\* and stays in the window. last is the window's latest request, n the number
\* of its requests, tight whether each came less than CACHE_DEBOUNCE_MS after
\* the one before.
\* The debounce windows are followed in the cache-writer specification only;
\* the other specifications start from UntrackedWindows and stay there.
UntrackedWindows == <<[fate |-> "untracked", last |-> 0, n |-> 0, tight |-> FALSE]>>

WindowsAfterRequest ==
  IF windows = UntrackedWindows
  THEN windows
  ELSE IF cacheWriteTimer = NoTimer
       THEN Append(windows,
                   [fate |-> "open", last |-> reqCount + 1, n |-> 1, tight |-> TRUE])
       ELSE [windows EXCEPT ![Len(windows)] =
               [fate |-> "open", last |-> reqCount + 1, n |-> @.n + 1,
                tight |-> @.tight /\ now - lastReqAt < CACHE_DEBOUNCE_MS]]

WindowsWithFate(w, fate) ==
  IF windows = UntrackedWindows THEN windows ELSE [windows EXCEPT ![w].fate = fate]

\* scheduleCacheWrite(userId, payload), as the effect of one call.
scheduleCacheWrite(userId, payload) ==
  /\ pendingCacheWrite' = NewPending(userId, payload, reqCount + 1)
  /\ cacheWriteTimer' = now + CacheDelay(now, lastCacheWriteAt)
  /\ UNCHANGED <<lastCacheWriteAt, idleRuns, idbData, lsRemoteCache>>
  /\ reqCount' = reqCount + 1
  /\ lastReqAt' = now
  /\ windows' = WindowsAfterRequest
  /\ tornDown' = FALSE
  /\ lastTeardown' = {}
  /\ UNCHANGED cacheWrites

\* A cancelScheduledCacheWrite() that clears nothing.
KeepScheduledCacheWrite ==
  UNCHANGED <<cacheWriteTimer, pendingCacheWrite, lastCacheWriteAt, idleRuns,
              idbData, lsRemoteCache, windows>>

\* cancelScheduledCacheWrite()
cancelScheduledCacheWrite ==
  /\ cacheWriteTimer' = NoTimer
  /\ pendingCacheWrite' = Null
  /\ UNCHANGED <<lastCacheWriteAt, idleRuns, idbData, lsRemoteCache>>
  /\ windows' = IF cacheWriteTimer # NoTimer
                THEN WindowsWithFate(Len(windows), "cancelled")
                ELSE windows

\* The setTimeout callback of scheduleCacheWrite.
CacheTimerFire ==
  /\ cacheWriteTimer # NoTimer
  /\ now >= cacheWriteTimer
  /\ cacheWriteTimer' = NoTimer
  /\ pendingCacheWrite' = Null
  /\ IF pendingCacheWrite = Null
     THEN UNCHANGED <<idleRuns, windows>>
     ELSE IF hidden
          THEN /\ UNCHANGED idleRuns
               /\ windows' = WindowsWithFate(Len(windows), "dropped")
          ELSE /\ idleRuns' = Append(idleRuns,
                    [pending |-> The(pendingCacheWrite),
                     window |-> Len(windows),
                     due |-> now + (IF hasRequestIdle THEN IDLE_TIMEOUT_MS ELSE 0)])
               /\ windows' = WindowsWithFate(Len(windows), "queued")
  /\ UNCHANGED <<lastCacheWriteAt, idbData, lsRemoteCache>>
  /\ UNCHANGED <<reqCount, lastReqAt, cacheWrites, tornDown, lastTeardown>>
  /\ UNCHANGED <<envVars, storeVars, syncVars>>
  /\ UNCHANGED <<apiVars, extVars>>

\* `run`: the deferred write itself, in an idle callback or the next macrotask.
\* The history record keeps the request written, the latest request made by
\* then, the time since the previous write (-1 for the first) and whether a
\* teardown came in between.
CacheRun ==
  /\ idleRuns # <<>>
  /\ LET r == Head(idleRuns)
         p == r.pending
     IN /\ lastCacheWriteAt' = now
        /\ idbData' = [idbData EXCEPT ![p.userId] = Some(p.payload)]
        /\ lsRemoteCache' = [lsRemoteCache EXCEPT ![p.userId] = Some(p.payload)]
        /\ idleRuns' = Tail(idleRuns)
        /\ cacheWrites' = Append(cacheWrites,
              [req |-> p.req, window |-> r.window, latest |-> reqCount,
               sincePrev |-> IF cacheWrites = <<>> THEN -1 ELSE now - lastCacheWriteAt,
               tornDown |-> tornDown])
        /\ windows' = WindowsWithFate(r.window, "written")
  /\ UNCHANGED <<cacheWriteTimer, pendingCacheWrite>>
  /\ UNCHANGED <<reqCount, lastReqAt, tornDown, lastTeardown>>
  /\ UNCHANGED <<envVars, storeVars, syncVars>>
  /\ UNCHANGED <<apiVars, extVars>>

\* Time passes. A due timer fires before the clock moves on, and a deferred
\* run is executed no later than its idle timeout (at once for a macrotask);
\* other callbacks may still run before either at the same instant.
Tick ==
  /\ now < MaxTime
  /\ cacheWriteTimer = NoTimer \/ now < cacheWriteTimer
  /\ \A i \in 1..Len(idleRuns) : now + TickMs <= idleRuns[i].due
  /\ now' = now + TickMs
  /\ UNCHANGED <<hidden, hasRequestIdle, writerVars, storeVars, syncVars, histVars>>
  /\ UNCHANGED <<apiVars, extVars>>

\* visibilitychange
VisibilityChange ==
  /\ hidden' = ~hidden
  /\ UNCHANGED <<now, hasRequestIdle, writerVars, storeVars, syncVars, histVars>>
  /\ UNCHANGED <<apiVars, extVars>>


\* ====================================================== store callbacks

\* updateRemoteReady(), given the readiness flags as they are after the
\* caller's own set(): remoteReady becomes their conjunction.
updateRemoteReady(n, i, f, st) == n /\ i /\ f /\ st

CachePayload(ns, is, fs, dark) ==
  [notes |-> ns, images |-> is, files |-> fs, isDarkMode |-> dark]

\* The full-collection snapshots the images (and files) listener can deliver:
\* Object.entries of the remote object, keys in order.
ImageSnapshots == {<<>>} \cup {<<i>> : i \in ImageIds}

\* subscribeToImages callback. (The migration it may start 2 s later belongs
\* to migrationManager and touches none of the state modelled here.)
ImagesSnapshot(snap) ==
  /\ "images" \in unsubscribers
  /\ reqCount < MaxRequests
  /\ images' = snap
  /\ imagesReady' = TRUE
  /\ remoteReady' = updateRemoteReady(notesReady, TRUE, filesReady, settingsReady)
  /\ scheduleCacheWrite(currentUserId, CachePayload(notes, snap, files, isDarkMode))
  /\ UNCHANGED <<notes, files, isDarkMode, selectedNoteId, selectedImageId,
                 selectedFileId, currentUserId, unsubscribers, notesReady,
                 filesReady, settingsReady>>
  /\ UNCHANGED <<envVars, syncVars>>
  /\ UNCHANGED <<apiVars, extVars>>

\* subscribeToSettings callback; hasDark tells whether settings?.isDarkMode
\* is defined, dark is its value.
SettingsSnapshot(hasDark, dark) ==
  /\ "settings" \in unsubscribers
  /\ reqCount < MaxRequests
  /\ LET nextIsDarkMode == IF hasDark THEN dark ELSE isDarkMode
     IN /\ isDarkMode' = nextIsDarkMode
        /\ scheduleCacheWrite(currentUserId,
                              CachePayload(notes, images, files, nextIsDarkMode))
  /\ settingsReady' = TRUE
  /\ remoteReady' = updateRemoteReady(notesReady, imagesReady, filesReady, TRUE)
  /\ UNCHANGED <<notes, images, files, selectedNoteId, selectedImageId,
                 selectedFileId, currentUserId, unsubscribers, notesReady,
                 imagesReady, filesReady>>
  /\ UNCHANGED <<envVars, syncVars>>
  /\ UNCHANGED <<apiVars, extVars>>

\* clearTimeout(reconnectTimer), if the handle is set: the timer set last is
\* no longer pending.
clearTimeout(handle, timeouts) ==
  IF handle /\ timeouts # <<>> THEN SubSeq(timeouts, 1, Len(timeouts) - 1) ELSE timeouts

\* A listener that sets a new timer without clearing the one pending.
ArmWithoutClear(handle, timeouts) == Append(timeouts, FALSE)

\* if (reconnectTimer) clearTimeout(reconnectTimer);
\* reconnectTimer = setTimeout(..., 500)
armReconnectTimer(handle, timeouts) == Append(clearTimeout(handle, timeouts), FALSE)

\* The oldest pending timer has run its 500 ms.
TimeoutDue(timeouts) == timeouts # <<>> /\ timeouts[1]

\* What a cleanupFirebaseSync() that starts now has to cancel and to detach:
\* the pending timers and the listeners in `unsubscribers`.
PendingAtTeardown ==
  unsubscribers
    \cup (IF reconnectTimer THEN {"reconnectTimer"} ELSE {})
    \cup (IF notesFlushRaf THEN {"notesFlushRaf"} ELSE {})
    \cup (IF cacheWriteTimer # NoTimer THEN {"cacheWriteTimer"} ELSE {})

\* cleanupFirebaseSync(): every unsubscriber runs (notesDeltaUnsubscriber,
\* connectedUnsubscriber, notesSyncCleanup, the images, files and settings
\* listeners), then cancelScheduledCacheWrite(), then the set().
cleanupFirebaseSync ==
  /\ IF unsubscribers # {}
     THEN /\ reconnectTimer' = FALSE
          /\ reconnectTimeouts' = clearTimeout(reconnectTimer, reconnectTimeouts)
          /\ notesSyncActive' = FALSE
          /\ notesFlushRaf' = FALSE
          /\ pendingFrames' = IF notesFlushRaf THEN pendingFrames - 1 ELSE pendingFrames
          /\ bufferedNotesEvents' = <<>>
     ELSE UNCHANGED <<reconnectTimer, reconnectTimeouts, notesSyncActive, notesFlushRaf, pendingFrames,
                      bufferedNotesEvents>>
  /\ cancelScheduledCacheWrite
  /\ currentUserId' = NoUser
  /\ unsubscribers' = {}
  /\ notesReady' = FALSE
  /\ imagesReady' = FALSE
  /\ filesReady' = FALSE
  /\ settingsReady' = FALSE
  /\ remoteReady' = FALSE
  /\ tornDown' = TRUE
  /\ lastTeardown' = PendingAtTeardown
  /\ UNCHANGED <<reqCount, lastReqAt, cacheWrites>>

\* A teardown on its own: logout, or leaving for another mode.
Teardown ==
  /\ cleanupFirebaseSync
  /\ UNCHANGED <<notes, images, files, isDarkMode, selectedNoteId,
                 selectedImageId, selectedFileId>>
  /\ UNCHANGED <<notesById, isBufferingNotes, isRefreshingNotes, fetchInFlight,
                 staleFetches, wasConnected, cacheLoadPending, sessions>>
  /\ lastDelivered' = NoEvents
  /\ lastNonAdded' = NoEvents
  /\ lastRefresh' = Null
  /\ lastDelta' = Null
  /\ UNCHANGED envVars
  /\ callLog' = <<>>
  /\ UNCHANGED <<authUid, storeImpl, zIndexTimer, remoteCalls, nCalls>>

\* cleanupFirebaseSync() with listeners attached
CleanupFirebaseSync ==
  /\ unsubscribers # {}
  /\ Teardown
  /\ UNCHANGED extVars

AllListeners == {"notesDelta", "connected", "notesSync", "images", "files", "settings"}

\* ------------------------------------------- cache-writer specification
\* A session of user u1 whose notes refresh and cache load have settled; the
\* remote then delivers images and settings snapshots while time passes.
WriterInit ==
  /\ now = StartTime
  /\ hidden = FALSE
  /\ hasRequestIdle \in BOOLEAN
  /\ cacheWriteTimer = NoTimer
  /\ pendingCacheWrite = Null
  /\ lastCacheWriteAt = 0
  /\ idleRuns = <<>>
  /\ idbData = [u \in Users |-> Null]
  /\ lsRemoteCache = [u \in Users |-> Null]
  /\ notes = <<>> /\ images = <<>> /\ files = <<>> /\ isDarkMode = FALSE
  /\ selectedNoteId = None /\ selectedImageId = None /\ selectedFileId = None
  /\ currentUserId = "u1"
  /\ unsubscribers = AllListeners
  /\ notesReady = TRUE /\ imagesReady = FALSE /\ filesReady = FALSE
  /\ settingsReady = FALSE /\ remoteReady = FALSE
  /\ notesById = <<>>
  /\ notesFlushRaf = FALSE
  /\ pendingFrames = 0
  /\ notesSyncActive = TRUE
  /\ isBufferingNotes = FALSE
  /\ isRefreshingNotes = FALSE
  /\ bufferedNotesEvents = <<>>
  /\ fetchInFlight = FALSE
  /\ staleFetches = 0
  /\ wasConnected = TRUE
  /\ reconnectTimer = FALSE
  /\ reconnectTimeouts = <<>>
  /\ cacheLoadPending = {}
  /\ sessions = 1
  /\ lastDelivered = NoEvents
  /\ lastNonAdded = NoEvents
  /\ lastRefresh = Null
  /\ lastDelta = Null
  /\ authUid = "u1"
  /\ storeImpl = "firebase"
  /\ zIndexTimer = Null
  /\ remoteCalls = <<>>
  /\ callLog = <<>>
  /\ nCalls = 0
  /\ reqCount = 0
  /\ lastReqAt = 0
  /\ windows = <<>>
  /\ cacheWrites = <<>>
  /\ tornDown = FALSE
  /\ lastTeardown = {}
  /\ ExtInit

WriterNext ==
  \/ \E snap \in ImageSnapshots : ImagesSnapshot(snap)
  \/ \E dark \in BOOLEAN : SettingsSnapshot(FALSE, dark)
  \/ CacheTimerFire
  \/ CacheRun
  \/ Tick
  \/ VisibilityChange
  \/ CleanupFirebaseSync

SpecWriter == WriterInit /\ [][WriterNext]_vars


\* --------------------------------------------- claims on the cache writer

WritesOfWindow(w) == {i \in DOMAIN cacheWrites : cacheWrites[i].window = w}

\* C4 -- Debounce bound: the requests of one debounce window (each made while
\* the timer armed by the one before is still pending, so in particular each
\* less than 2 s after the previous one) lead to exactly one cache write, and
\* it carries the payload of the last of them: a window never has two writes,
\* a write carries the window's last request, a window whose timer fired with
\* the tab visible has its write either queued or done, and a window that was
\* dropped (tab hidden) or cancelled (teardown) has none.
C4_DebounceOneWrite ==
  \A w \in DOMAIN windows :
    /\ Cardinality(WritesOfWindow(w)) <= 1
    /\ \A i \in WritesOfWindow(w) : cacheWrites[i].req = windows[w].last
    /\ (windows[w].fate = "written") = (Cardinality(WritesOfWindow(w)) = 1)
    /\ windows[w].fate = "queued" =>
         \E k \in DOMAIN idleRuns :
            idleRuns[k].window = w /\ idleRuns[k].pending.req = windows[w].last

\* A window of at least two requests, each less than 2 s after the previous
\* one, has been written.
C4_Witness ==
  \E w \in DOMAIN windows :
    /\ windows[w].fate = "written"
    /\ windows[w].n >= 2
    /\ windows[w].tight
    /\ \E i \in WritesOfWindow(w) : cacheWrites[i].req = windows[w].last

\* C5 -- Minimum interval: no two cache writes are less than
\* CACHE_MIN_INTERVAL_MS apart.
C5_MinInterval ==
  \A i \in DOMAIN cacheWrites :
    cacheWrites[i].sincePrev = -1 \/ cacheWrites[i].sincePrev >= CACHE_MIN_INTERVAL_MS

\* C6 -- Only the most recent payload is ever written: a write carries the
\* payload of the latest request made by the time it happens.
C6_OnlyLatestWritten ==
  \A i \in DOMAIN cacheWrites : cacheWrites[i].req = cacheWrites[i].latest

\* C7 -- Cancellation: after cleanupFirebaseSync no cache write happens until
\* a new request is made.
C7_NoWriteAfterTeardown ==
  \A i \in DOMAIN cacheWrites : ~cacheWrites[i].tornDown

\* The setTimeout callback of scheduleCacheWrite runs in this step with a
\* payload pending.
TimerFiresStep ==
  /\ cacheWriteTimer # NoTimer
  /\ cacheWriteTimer' = NoTimer
  /\ unsubscribers' = unsubscribers
  /\ pendingCacheWrite # Null

\* Nothing is written or queued, the payload is gone and lastCacheWriteAt
\* stays.
DroppedInStep ==
  /\ idbData' = idbData
  /\ lsRemoteCache' = lsRemoteCache
  /\ cacheWrites' = cacheWrites
  /\ idleRuns' = idleRuns
  /\ pendingCacheWrite' = Null
  /\ lastCacheWriteAt' = lastCacheWriteAt

\* A cache write happens in this step, with the tab visible, for a window
\* that came after a dropped one.
VisibleWriteAfterDropStep ==
  /\ Len(cacheWrites') = Len(cacheWrites) + 1
  /\ ~hidden
  /\ \E w \in DOMAIN windows :
       windows[w].fate = "dropped" /\ w < cacheWrites'[Len(cacheWrites')].window

\* Both tiers hold the state of the store after the write of this step.
WritesLatestInStep ==
  /\ idbData'["u1"] = Some(CachePayload(notes, images, files, isDarkMode))
  /\ lsRemoteCache'["u1"] = idbData'["u1"]

\* C30 -- If the document is hidden when the cache-write timer fires, no
\* write to either cache tier occurs, the pending payload is dropped and the
\* last-write time is left unchanged; the next write made while the tab is
\* visible carries the latest state.
C30_HiddenDropThenLatest ==
  [][/\ (TimerFiresStep /\ hidden) => DroppedInStep
     /\ VisibleWriteAfterDropStep => WritesLatestInStep]_vars

\* The first half of C30 alone: a timer that fires with the tab hidden drops
\* the payload and writes nothing.
C30_HiddenFireDrops == [][(TimerFiresStep /\ hidden) => DroppedInStep]_vars

\* A window was dropped with the tab hidden, none of the writes is of its
\* request, and a later window was written with the latest request.
C30_WitnessDropped ==
  /\ \E w \in DOMAIN windows :
       /\ windows[w].fate = "dropped"
       /\ \E i \in DOMAIN cacheWrites :
            /\ cacheWrites[i].window > w
            /\ cacheWrites[i].req = cacheWrites[i].latest
       /\ \A i \in DOMAIN cacheWrites : cacheWrites[i].req # windows[w].last


\* ================================================ notes delta reconciler

\* A JavaScript Map keyed by id is a sequence of records with an id field, in
\* insertion order (which is the order of Array.from(map.values())).
MapHas(m, id) == \E k \in DOMAIN m : m[k].id = id
MapGet(m, id) == m[CHOOSE k \in DOMAIN m : m[k].id = id]
\* A map whose set() keeps the value a key already has.
MapSetKeepFirst(m, v) == IF MapHas(m, v.id) THEN m ELSE Append(m, v)

\* map.set(v.id, v): an existing key keeps its place
MapSet(m, v) ==
  IF MapHas(m, v.id)
  THEN [k \in DOMAIN m |-> IF m[k].id = v.id THEN v ELSE m[k]]
  ELSE Append(m, v)
\* A delete that drops the oldest entry, whatever its key.
MapDropFirst(m, id) == IF m = <<>> THEN m ELSE Tail(m)
\* map.delete(id)
MapDelete(m, id) == SelectSeq(m, LAMBDA v : v.id # id)

\* The note payloads the remote carries (FirebaseNote without its id). x
\* stands for the numeric fields x, y, width and height, which the code
\* treats alike. The first two differ only in zIndex being absent or 0.
WireA ==
  [content |-> "a", x |-> 100, color |-> "yellow", zIndex |-> Undefined,
   createdAt |-> 1, updatedAt |-> 1]
WireA0 == [WireA EXCEPT !.zIndex = 0]
WireAB == [WireA EXCEPT !.content = "ab", !.zIndex = 1, !.updatedAt = 2]
WireNotes == {WireA, WireA0, WireAB}

\* NotesDeltaEvent: the code tells 'removed' and 'added' from the rest. The
\* events delivered are about note n1; note n2 comes and goes with snapshots.
Events ==
  [type : {"added"}, id : {"n1"}, note : WireNotes]
    \cup [type : {"changed"}, id : {"n1"}, note : {WireA, WireAB}]
    \cup [type : {"removed"}, id : {"n1"}]

\* z || 0
OrZero(z) == IF z = Undefined THEN 0 ELSE z

\* firebaseNoteToLocal({ ...note, id }); a Date is modelled by its getTime().
firebaseNoteToLocal(id, note) ==
  [id |-> id, content |-> note.content, x |-> note.x, color |-> note.color,
   zIndex |-> OrZero(note.zIndex),
   createdAt |-> note.createdAt, updatedAt |-> note.updatedAt]

isSameNote(existing, note) ==
  /\ existing.content = note.content
  /\ existing.x = note.x
  /\ existing.color = note.color
  /\ OrZero(existing.zIndex) = OrZero(note.zIndex)
  /\ existing.createdAt = note.createdAt
  /\ existing.updatedAt = note.updatedAt

\* An applyNotesEvent that applies nothing.
NeverApplied(m, e) == [map |-> m, changed |-> FALSE]

\* applyNotesEvent(event): the map afterwards and the value returned.
applyNotesEvent(m, e) ==
  IF e.type = "removed"
  THEN [map |-> MapDelete(m, e.id), changed |-> MapHas(m, e.id)]
  ELSE IF MapHas(m, e.id) /\ isSameNote(MapGet(m, e.id), e.note)
       THEN [map |-> m, changed |-> FALSE]
       ELSE [map |-> MapSet(m, firebaseNoteToLocal(e.id, e.note)), changed |-> TRUE]

\* A reconciler that leaves the buffer as it is after applying it.
BufferKept(buf) == buf

\* bufferedNotesEvents.clear()
BufferAfterApply(buf) == <<>>

\* The loop of applyBufferedNotesEventsToMap from the k-th buffered event on;
\* applied lists the ids handed to applyNotesEvent (history).
RECURSIVE ApplyBufferedFrom(_, _, _)
ApplyBufferedFrom(acc, buf, k) ==
  IF k > Len(buf)
  THEN acc
  ELSE LET e == buf[k]
       IN IF e.type = "added" /\ MapHas(acc.map, e.id)
          THEN ApplyBufferedFrom(acc, buf, k + 1)
          ELSE LET r == applyNotesEvent(acc.map, e)
               IN ApplyBufferedFrom(
                    [map |-> r.map, changed |-> r.changed \/ acc.changed,
                     applied |-> Append(acc.applied, e.id)], buf, k + 1)

applyBufferedNotesEventsToMap(m, buf) ==
  ApplyBufferedFrom([map |-> m, changed |-> FALSE, applied |-> <<>>], buf, 1)

\* A reconciler that publishes on every event.
AlwaysApplies(m, e) == TRUE

\* A flushNotesToState that requests a frame whether or not one is pending.
FlushUnguarded(active, raf, frames) ==
  IF ~active
  THEN [raf |-> raf, frames |-> frames]
  ELSE [raf |-> TRUE, frames |-> frames + 1]

\* flushNotesToState(): nothing for a session that ended, nothing while a
\* frame is requested; otherwise requestAnimationFrame.
flushNotesToState(active, raf, frames) ==
  IF ~active \/ raf
  THEN [raf |-> raf, frames |-> frames]
  ELSE [raf |-> TRUE, frames |-> frames + 1]

\* The frame handle and the frames pending after a step that calls
\* flushNotesToState() if called holds.
FlushIf(called) ==
  IF called
  THEN flushNotesToState(notesSyncActive, notesFlushRaf, pendingFrames)
  ELSE [raf |-> notesFlushRaf, frames |-> pendingFrames]

\* Whether the delta callback, not buffering, goes on to flushNotesToState:
\* not for an 'added' whose id is in the map, and only if applyNotesEvent
\* reports a change.
DeltaApplies(m, e) ==
  /\ ~(e.type = "added" /\ MapHas(m, e.id))
  /\ applyNotesEvent(m, e).changed

\* The selection after a set() that publishes map m as the notes.
SelectionAfter(m) ==
  IF selectedNoteId # None /\ ~MapHas(m, selectedNoteId) THEN None ELSE selectedNoteId


\* subscribeToNotesDelta callback
DeltaEvent(e) ==
  /\ "notesDelta" \in unsubscribers
  /\ notesSyncActive
  /\ IF isBufferingNotes
     THEN /\ bufferedNotesEvents' = MapSet(bufferedNotesEvents, e)
          /\ lastDelivered' =
               [lastDelivered EXCEPT ![e.id] =
                  Some([event |-> e, n |-> IF lastDelivered[e.id] = Null THEN 1 ELSE 2])]
          /\ lastNonAdded' = IF e.type # "added"
                             THEN [lastNonAdded EXCEPT ![e.id] = Some(e)]
                             ELSE lastNonAdded
          /\ UNCHANGED <<notesById, notesFlushRaf, pendingFrames>>
     ELSE /\ IF DeltaApplies(notesById, e)
             THEN /\ notesById' = applyNotesEvent(notesById, e).map
                  /\ notesFlushRaf' = FlushIf(TRUE).raf
                  /\ pendingFrames' = FlushIf(TRUE).frames
             ELSE UNCHANGED <<notesById, notesFlushRaf, pendingFrames>>
          /\ UNCHANGED <<bufferedNotesEvents, lastDelivered, lastNonAdded>>
  /\ lastRefresh' = Null
  /\ LET held == e.type = "added" /\ MapHas(notesById, e.id)
         identical == held /\ isSameNote(MapGet(notesById, e.id), e.note)
     IN lastDelta' = Some([id |-> e.id,
                           event |-> e,
                           kept |-> IF held THEN Some(MapGet(notesById, e.id)) ELSE Null,
                           identical |-> identical,
                           buffering |-> isBufferingNotes,
                           raf |-> notesFlushRaf,
                           req |-> reqCount,
                           notes |-> notes])
  /\ UNCHANGED <<notesSyncActive, isBufferingNotes, isRefreshingNotes, fetchInFlight,
                 staleFetches, wasConnected, reconnectTimer, reconnectTimeouts, cacheLoadPending, sessions>>
  /\ UNCHANGED <<envVars, writerVars, storeVars, histVars>>
  /\ UNCHANGED <<apiVars, extVars>>

\* The animation frame requested by flushNotesToState.
FlushRaf ==
  /\ notesFlushRaf
  /\ reqCount < MaxPublishes
  /\ notesFlushRaf' = FALSE
  /\ pendingFrames' = pendingFrames - 1
  /\ notes' = notesById
  /\ notesReady' = TRUE
  /\ selectedNoteId' = SelectionAfter(notesById)
  /\ remoteReady' = updateRemoteReady(TRUE, imagesReady, filesReady, settingsReady)
  /\ scheduleCacheWrite(currentUserId, CachePayload(notesById, images, files, isDarkMode))
  /\ lastRefresh' = Null
  /\ lastDelta' = Null
  /\ UNCHANGED <<images, files, isDarkMode, selectedImageId, selectedFileId,
                 currentUserId, unsubscribers, imagesReady, filesReady, settingsReady>>
  /\ UNCHANGED <<notesById, notesSyncActive, isBufferingNotes, isRefreshingNotes,
                 bufferedNotesEvents, fetchInFlight, staleFetches, wasConnected,
                 reconnectTimer, reconnectTimeouts, cacheLoadPending, sessions, lastDelivered, lastNonAdded>>
  /\ UNCHANGED envVars
  /\ UNCHANGED <<apiVars, extVars>>


\* The first statements of refreshNotesOnce, up to the await.
refreshNotesOnce ==
  IF ~notesSyncActive \/ isRefreshingNotes
  THEN UNCHANGED <<isRefreshingNotes, isBufferingNotes, fetchInFlight>>
  ELSE /\ isRefreshingNotes' = TRUE
       /\ isBufferingNotes' = TRUE
       /\ fetchInFlight' = TRUE

\* Object.entries(firebaseNotes): the fetched collections, keys in order.
IdOrder == <<"n1", "n2">>
SnapshotOf(f) ==
  LET present == SelectSeq(IdOrder, LAMBDA i : i \in DOMAIN f)
  IN [k \in DOMAIN present |-> [id |-> present[k], note |-> f[present[k]]]]
SnapshotNotes(id) == IF id = "n1" THEN {WireA, WireAB} ELSE {WireA}
Snapshots ==
  {SnapshotOf(f) :
     f \in UNION {{g \in [S -> WireNotes] : \A i \in S : g[i] \in SnapshotNotes(i)} :
                    S \in SUBSET Ids}}

\* notesById.clear() and the loop that loads the snapshot
MapOfSnapshot(snap) ==
  [k \in DOMAIN snap |-> firebaseNoteToLocal(snap[k].id, snap[k].note)]

\* A finally block that leaves the buffer alone.
FinallySkipped(m, buf) ==
  [map |-> m, buf |-> buf, flush |-> FALSE, applied |-> <<>>]

\* The finally block of refreshNotesOnce on map m and buffer buf:
\* flushBufferedNotesEvents if anything is buffered.
FinallyFlush(m, buf) ==
  IF Len(buf) > 0
  THEN LET r == applyBufferedNotesEventsToMap(m, buf)
       IN [map |-> r.map, buf |-> BufferAfterApply(buf), flush |-> r.changed,
           applied |-> r.applied]
  ELSE [map |-> m, buf |-> buf, flush |-> FALSE, applied |-> <<>>]

\* fetchNotesOnce resolves with snap: the rest of refreshNotesOnce.
RefreshResolve(snap) ==
  /\ fetchInFlight
  /\ notesSyncActive => reqCount < MaxPublishes
  /\ fetchInFlight' = FALSE
  /\ isBufferingNotes' = FALSE
  /\ isRefreshingNotes' = FALSE
  /\ IF ~notesSyncActive
     THEN /\ UNCHANGED <<storeVars, writerVars, histVars>>
          /\ UNCHANGED <<notesById, notesFlushRaf, pendingFrames, bufferedNotesEvents>>
          /\ lastRefresh' = Null
     ELSE LET fresh == MapOfSnapshot(snap)
              r == applyBufferedNotesEventsToMap(fresh, bufferedNotesEvents)
              fin == FinallyFlush(r.map, BufferAfterApply(bufferedNotesEvents))
          IN /\ notes' = r.map
             /\ notesReady' = TRUE
             /\ selectedNoteId' = SelectionAfter(r.map)
             /\ remoteReady' = updateRemoteReady(TRUE, imagesReady, filesReady,
                                                 settingsReady)
             /\ scheduleCacheWrite(currentUserId,
                                   CachePayload(r.map, images, files, isDarkMode))
             /\ notesById' = fin.map
             /\ bufferedNotesEvents' = fin.buf
             /\ notesFlushRaf' = FlushIf(fin.flush).raf
             /\ pendingFrames' = FlushIf(fin.flush).frames
             /\ lastRefresh' = Some([ok |-> TRUE, base |-> fresh,
                                     lastDelivered |-> lastDelivered,
                                     lastNonAdded |-> lastNonAdded,
                                     applied |-> r.applied \o fin.applied,
                                     raf |-> notesFlushRaf])
             /\ UNCHANGED <<images, files, isDarkMode, selectedImageId, selectedFileId,
                            currentUserId, unsubscribers, imagesReady, filesReady,
                            settingsReady>>
  /\ lastDelivered' = NoEvents
  /\ lastNonAdded' = NoEvents
  /\ lastDelta' = Null
  /\ UNCHANGED <<notesSyncActive, staleFetches, wasConnected, reconnectTimer, reconnectTimeouts,
                 cacheLoadPending, sessions>>
  /\ UNCHANGED envVars
  /\ UNCHANGED <<apiVars, extVars>>

\* fetchNotesOnce rejects: the catch block, then the finally block. The catch
\* block does not look at notesSyncActive.
RefreshFail ==
  /\ fetchInFlight
  /\ fetchInFlight' = FALSE
  /\ isBufferingNotes' = FALSE
  /\ isRefreshingNotes' = FALSE
  /\ notesReady' = TRUE
  /\ remoteReady' = updateRemoteReady(TRUE, imagesReady, filesReady, settingsReady)
  /\ LET fin == FinallyFlush(notesById, bufferedNotesEvents)
     IN /\ notesById' = fin.map
        /\ bufferedNotesEvents' = fin.buf
        /\ notesFlushRaf' = FlushIf(fin.flush).raf
        /\ pendingFrames' = FlushIf(fin.flush).frames
        /\ lastRefresh' = IF notesSyncActive
                          THEN Some([ok |-> FALSE, base |-> notesById,
                                     lastDelivered |-> lastDelivered,
                                     lastNonAdded |-> lastNonAdded,
                                     applied |-> fin.applied,
                                     raf |-> notesFlushRaf])
                          ELSE Null
  /\ lastDelivered' = NoEvents
  /\ lastNonAdded' = NoEvents
  /\ lastDelta' = Null
  /\ UNCHANGED <<notes, images, files, isDarkMode, selectedNoteId, selectedImageId,
                 selectedFileId, currentUserId, unsubscribers, imagesReady,
                 filesReady, settingsReady>>
  /\ UNCHANGED <<notesSyncActive, staleFetches, wasConnected, reconnectTimer, reconnectTimeouts,
                 cacheLoadPending, sessions>>
  /\ UNCHANGED <<envVars, writerVars, histVars>>
  /\ UNCHANGED <<apiVars, extVars>>

\* The fetch of a session since replaced resolves: its closure is inactive,
\* so only its own flags change.
StaleFetchResolve ==
  /\ staleFetches > 0
  /\ staleFetches' = staleFetches - 1
  /\ lastRefresh' = Null
  /\ lastDelta' = Null
  /\ UNCHANGED <<notesById, notesFlushRaf, pendingFrames, notesSyncActive, isBufferingNotes,
                 isRefreshingNotes, bufferedNotesEvents, fetchInFlight, wasConnected,
                 reconnectTimer, reconnectTimeouts, cacheLoadPending, sessions, lastDelivered, lastNonAdded>>
  /\ UNCHANGED <<envVars, writerVars, storeVars, histVars>>
  /\ UNCHANGED <<apiVars, extVars>>

\* The fetch of a session since replaced rejects: its catch block still
\* writes to the store.
StaleFetchFail ==
  /\ staleFetches > 0
  /\ staleFetches' = staleFetches - 1
  /\ notesReady' = TRUE
  /\ remoteReady' = updateRemoteReady(TRUE, imagesReady, filesReady, settingsReady)
  /\ lastRefresh' = Null
  /\ lastDelta' = Null
  /\ UNCHANGED <<notes, images, files, isDarkMode, selectedNoteId, selectedImageId,
                 selectedFileId, currentUserId, unsubscribers, imagesReady,
                 filesReady, settingsReady>>
  /\ UNCHANGED <<notesById, notesFlushRaf, pendingFrames, notesSyncActive, isBufferingNotes,
                 isRefreshingNotes, bufferedNotesEvents, fetchInFlight, wasConnected,
                 reconnectTimer, reconnectTimeouts, cacheLoadPending, sessions, lastDelivered, lastNonAdded>>
  /\ UNCHANGED <<envVars, writerVars, histVars>>
  /\ UNCHANGED <<apiVars, extVars>>

\* 500 ms pass for the pending timers that are not due yet.
ReconnectDelayElapses ==
  /\ \E k \in DOMAIN reconnectTimeouts : ~reconnectTimeouts[k]
  /\ reconnectTimeouts' = [k \in DOMAIN reconnectTimeouts |-> TRUE]
  /\ lastRefresh' = Null
  /\ lastDelta' = Null
  /\ UNCHANGED <<notesById, notesFlushRaf, pendingFrames, notesSyncActive, isBufferingNotes,
                 isRefreshingNotes, bufferedNotesEvents, fetchInFlight, staleFetches,
                 wasConnected, reconnectTimer, cacheLoadPending, sessions, lastDelivered,
                 lastNonAdded>>
  /\ UNCHANGED <<envVars, writerVars, storeVars, histVars>>
  /\ UNCHANGED <<apiVars, extVars>>

\* The '.info/connected' listener
ConnectedChange(isConnected) ==
  /\ "connected" \in unsubscribers
  /\ notesSyncActive
  /\ isConnected # wasConnected
  /\ reconnectTimer' = IF isConnected /\ ~wasConnected THEN TRUE ELSE reconnectTimer
  /\ reconnectTimeouts' = IF isConnected /\ ~wasConnected
                        THEN armReconnectTimer(reconnectTimer, reconnectTimeouts)
                        ELSE reconnectTimeouts
  /\ wasConnected' = isConnected
  /\ lastRefresh' = Null
  /\ lastDelta' = Null
  /\ UNCHANGED <<notesById, notesFlushRaf, pendingFrames, notesSyncActive, isBufferingNotes,
                 isRefreshingNotes, bufferedNotesEvents, fetchInFlight, staleFetches,
                 cacheLoadPending, sessions, lastDelivered, lastNonAdded>>
  /\ UNCHANGED <<envVars, writerVars, storeVars, histVars>>
  /\ UNCHANGED <<apiVars, extVars>>

\* The callback of the oldest pending reconnect timer runs:
\* refreshNotesOnce('reconnected')
ReconnectTimerCallback ==
  /\ reconnectTimeouts # <<>>
  /\ reconnectTimeouts' = Tail(reconnectTimeouts)
  /\ reconnectTimer' = (Tail(reconnectTimeouts) # <<>>)
  /\ refreshNotesOnce
  /\ lastRefresh' = Null
  /\ lastDelta' = Null
  /\ UNCHANGED <<notesById, notesFlushRaf, pendingFrames, notesSyncActive, bufferedNotesEvents,
                 staleFetches, wasConnected, cacheLoadPending, sessions, lastDelivered,
                 lastNonAdded>>
  /\ UNCHANGED <<envVars, writerVars, storeVars, histVars>>
  /\ UNCHANGED <<apiVars, extVars>>

\* The reconnect timer fires, with the delay left out: a pending timer may
\* run at any step.
ReconnectTimerFire ==
  /\ reconnectTimer
  /\ ReconnectTimerCallback

\* The reconnect timer fires, with the delay tracked: only a timer whose
\* 500 ms have passed runs.
ReconnectTimerFireDue ==
  /\ TimeoutDue(reconnectTimeouts)
  /\ ReconnectTimerCallback


\* What loadCache reads back for a user from the IndexedDB tier and from the
\* localStorage tier: the payload last saved there, if any.
CachedIdb(u) == idbData[u]
CachedLs(u) == lsRemoteCache[u]

\* loadCache() of a session of user u settles. It is not tied to the session
\* being alive.
LoadCacheSettles(u) ==
  /\ u \in cacheLoadPending
  /\ cacheLoadPending' = cacheLoadPending \ {u}
  /\ LET idb == CachedIdb(u)
         ls == CachedLs(u)
         useIdb == /\ idb # Null
                   /\ \/ Len(The(idb).notes) > 0
                      \/ Len(The(idb).images) > 0
                      \/ Len(The(idb).files) > 0
     IN IF useIdb \/ ls # Null
        THEN LET c == IF useIdb THEN The(idb) ELSE The(ls)
             IN /\ notes' = c.notes
                /\ images' = c.images
                /\ files' = c.files
                /\ isDarkMode' = c.isDarkMode
        ELSE UNCHANGED <<notes, images, files, isDarkMode>>
  /\ lastRefresh' = Null
  /\ lastDelta' = Null
  /\ UNCHANGED <<selectedNoteId, selectedImageId, selectedFileId, currentUserId,
                 unsubscribers, notesReady, imagesReady, filesReady, settingsReady,
                 remoteReady>>
  /\ UNCHANGED <<notesById, notesFlushRaf, pendingFrames, notesSyncActive, isBufferingNotes,
                 isRefreshingNotes, bufferedNotesEvents, fetchInFlight, staleFetches,
                 wasConnected, reconnectTimer, reconnectTimeouts, sessions, lastDelivered, lastNonAdded>>
  /\ UNCHANGED <<envVars, writerVars, histVars>>
  /\ UNCHANGED <<apiVars, extVars>>

\* initializeFirebaseSync(userId): cleanupFirebaseSync(), the set(), the start
\* of loadCache(), a fresh closure, the subscriptions and
\* refreshNotesOnce('initial') up to its await. A fetch of the session replaced
\* stays in flight.
InitSession(userId) ==
  /\ sessions < MaxSessions
  /\ sessions' = sessions + 1
  /\ cancelScheduledCacheWrite
  /\ tornDown' = TRUE
  /\ lastTeardown' = {}
  /\ currentUserId' = userId
  /\ notesReady' = FALSE
  /\ imagesReady' = FALSE
  /\ filesReady' = FALSE
  /\ settingsReady' = FALSE
  /\ remoteReady' = FALSE
  /\ cacheLoadPending' = cacheLoadPending \cup {userId}
  /\ notesById' = <<>>
  /\ notesFlushRaf' = FALSE
  /\ pendingFrames' = IF notesFlushRaf THEN pendingFrames - 1 ELSE pendingFrames
  /\ notesSyncActive' = TRUE
  /\ isBufferingNotes' = TRUE
  /\ isRefreshingNotes' = TRUE
  /\ bufferedNotesEvents' = <<>>
  /\ fetchInFlight' = TRUE
  /\ staleFetches' = staleFetches + (IF fetchInFlight THEN 1 ELSE 0)
  /\ wasConnected' = TRUE
  /\ reconnectTimer' = FALSE
  /\ reconnectTimeouts' = clearTimeout(reconnectTimer, reconnectTimeouts)
  /\ unsubscribers' = AllListeners
  /\ lastDelivered' = NoEvents
  /\ lastNonAdded' = NoEvents
  /\ lastRefresh' = Null
  /\ lastDelta' = Null
  /\ UNCHANGED <<notes, images, files, isDarkMode, selectedNoteId, selectedImageId,
                 selectedFileId>>
  /\ UNCHANGED <<reqCount, lastReqAt, cacheWrites>>
  /\ UNCHANGED envVars

\* initializeFirebaseSync(userId), called from anywhere
InitializeFirebaseSync(userId) ==
  /\ InitSession(userId)
  /\ UNCHANGED <<apiVars, extVars>>

\* ---------------------------------------------- reconciler specification
\* The store as constructed, no session yet. The clock stands still: the
\* reconciler does not read it.
\* No session yet; idb is what the IndexedDB tier holds from earlier runs.
SessionInit(idb) ==
  /\ now = StartTime
  /\ hidden = FALSE
  /\ hasRequestIdle = TRUE
  /\ cacheWriteTimer = NoTimer
  /\ pendingCacheWrite = Null
  /\ lastCacheWriteAt = 0
  /\ idleRuns = <<>>
  /\ idbData = idb
  /\ lsRemoteCache = [u \in Users |-> Null]
  /\ notes = <<>> /\ images = <<>> /\ files = <<>> /\ isDarkMode = FALSE
  /\ selectedNoteId = None /\ selectedImageId = None /\ selectedFileId = None
  /\ currentUserId = NoUser
  /\ unsubscribers = {}
  /\ notesReady = FALSE /\ imagesReady = FALSE /\ filesReady = FALSE
  /\ settingsReady = FALSE /\ remoteReady = FALSE
  /\ notesById = <<>>
  /\ notesFlushRaf = FALSE
  /\ pendingFrames = 0
  /\ notesSyncActive = FALSE
  /\ isBufferingNotes = FALSE
  /\ isRefreshingNotes = FALSE
  /\ bufferedNotesEvents = <<>>
  /\ fetchInFlight = FALSE
  /\ staleFetches = 0
  /\ wasConnected = TRUE
  /\ reconnectTimer = FALSE
  /\ reconnectTimeouts = <<>>
  /\ cacheLoadPending = {}
  /\ sessions = 0
  /\ lastDelivered = NoEvents
  /\ lastNonAdded = NoEvents
  /\ lastRefresh = Null
  /\ lastDelta = Null
  /\ authUid = "u1"
  /\ storeImpl = "firebase"
  /\ zIndexTimer = Null
  /\ remoteCalls = <<>>
  /\ callLog = <<>>
  /\ nCalls = 0
  /\ reqCount = 0
  /\ lastReqAt = 0
  /\ windows = UntrackedWindows
  /\ cacheWrites = <<>>
  /\ tornDown = FALSE
  /\ lastTeardown = {}
  /\ ExtInit

NotesInit == SessionInit([u \in Users |-> Null])

NotesNext ==
  \/ \E u \in Users : InitializeFirebaseSync(u)
  \/ \E e \in Events : DeltaEvent(e)
  \/ \E snap \in Snapshots : RefreshResolve(snap)
  \/ RefreshFail
  \/ StaleFetchResolve
  \/ StaleFetchFail
  \/ \E isConnected \in BOOLEAN : ConnectedChange(isConnected)
  \/ ReconnectTimerFire
  \/ FlushRaf
  \/ CleanupFirebaseSync

SpecNotes == NotesInit /\ [][NotesNext]_vars


\* ------------------------------------------------ claims on the reconciler

\* The note a map holds for id, or Null.
MapAt(m, id) == IF MapHas(m, id) THEN Some(MapGet(m, id)) ELSE Null

\* How often id occurs in a sequence of ids.
Count(seq, id) == Cardinality({k \in DOMAIN seq : seq[k] = id})

\* Event e is an 'added' for an id that base holds.
DiscardedOver(base, e) == e.type = "added" /\ MapHas(base, e.id)

\* The note that laying event e over base leaves for its id, or Null.
LaidOver(base, e) ==
  IF e.type = "removed" THEN Null
  ELSE IF DiscardedOver(base, e) THEN MapAt(base, e.id)
  ELSE Some(firebaseNoteToLocal(e.id, e.note))

IdenticalAdded(m, e) ==
  e.type = "added" /\ MapHas(m, e.id) /\ isSameNote(MapGet(m, e.id), e.note)

\* C2 -- Equality skip: an 'added' event whose fields equal those of the note
\* held for its id leaves the store's notes as they are, requests no flush and
\* makes no scheduleCacheWrite call, whether it is delivered in Idle or while
\* buffering; and when a failed refresh re-applies a buffer of such events,
\* the map stays as it was and no flush is requested.
C2_EqualitySkip ==
  /\ lastDelta # Null /\ The(lastDelta).identical =>
       /\ notesFlushRaf = The(lastDelta).raf
       /\ reqCount = The(lastDelta).req
       /\ notes = The(lastDelta).notes
  /\ lastRefresh # Null =>
       LET r == The(lastRefresh)
       IN (/\ ~r.ok
           /\ \A id \in Ids :
                \/ r.lastDelivered[id] = Null
                \/ IdenticalAdded(r.base, The(r.lastDelivered[id]).event))
          => notesById = r.base /\ notesFlushRaf = r.raf

\* In Idle, with no flush pending, an 'added' event identical to the held note
\* has just been delivered.
C2_Witness ==
  /\ lastDelta # Null
  /\ The(lastDelta).identical
  /\ ~The(lastDelta).buffering
  /\ ~The(lastDelta).raf

\* While buffering, an 'added' event identical to the held note has just been
\* delivered.
C2_WitnessBuffering ==
  /\ lastDelta # Null
  /\ The(lastDelta).identical
  /\ The(lastDelta).buffering

\* A failed refresh has just re-applied a buffered 'added' event identical to
\* the held note.
C2_WitnessFailedRefresh ==
  /\ lastRefresh # Null
  /\ ~The(lastRefresh).ok
  /\ \E id \in Ids :
       /\ The(lastRefresh).lastDelivered[id] # Null
       /\ IdenticalAdded(The(lastRefresh).base,
                         The(The(lastRefresh).lastDelivered[id]).event)

\* C3 -- Two events buffered for one id, as the code has it: after a
\* successful refresh the store's notes show for that id what the second
\* (fresh) event leaves over the fetched snapshot, and nothing of the first:
\* no note if it is a 'removed', the snapshot's note if it is an 'added' whose
\* id the snapshot holds, its own fields otherwise.
C3_FreshOverSnapshot ==
  lastRefresh # Null /\ The(lastRefresh).ok =>
    LET r == The(lastRefresh)
    IN \A id \in Ids :
         (r.lastDelivered[id] # Null /\ The(r.lastDelivered[id]).n = 2) =>
            MapAt(notes, id) = LaidOver(r.base, The(r.lastDelivered[id]).event)

\* A successful refresh for which two events were buffered for one id, the
\* second a 'changed' whose fields differ from the snapshot's, which are now
\* in the store's notes.
C3_Witness ==
  /\ lastRefresh # Null
  /\ The(lastRefresh).ok
  /\ \E id \in Ids :
       LET d == The(lastRefresh).lastDelivered[id]
       IN /\ d # Null
          /\ The(d).n = 2
          /\ The(d).event.type = "changed"
          /\ MapAt(notes, id) = Some(firebaseNoteToLocal(id, The(d).event.note))
          /\ MapAt(notes, id) # MapAt(The(lastRefresh).base, id)

\* C3 as stated: the fields of the second event are what the store shows.
C3_OnlyFreshVisible ==
  lastRefresh # Null /\ The(lastRefresh).ok =>
    LET r == The(lastRefresh)
    IN \A id \in Ids :
         (/\ r.lastDelivered[id] # Null
          /\ The(r.lastDelivered[id]).n = 2
          /\ The(r.lastDelivered[id]).event.type # "removed") =>
            MapAt(notes, id) =
              Some(firebaseNoteToLocal(id, The(r.lastDelivered[id]).event.note))

\* What event e says about its id: no note, or the note it carries.
Said(e) ==
  IF e.type = "removed" THEN Null ELSE Some(firebaseNoteToLocal(e.id, e.note))

\* A refresh has just failed with the session alive.
RefreshJustFailed == lastRefresh # Null /\ ~The(lastRefresh).ok

\* C21 -- Failed refresh, as the code has it: the notes are marked ready, the
\* reconciler is back in Idle with an empty buffer, and the map is the map as
\* it was overlaid with the last event buffered for each id, except that an
\* 'added' event for an id the map holds is dropped; an event delivered in
\* Idle is not buffered.
C21_FailedRefresh ==
  /\ RefreshJustFailed =>
       LET r == The(lastRefresh)
       IN /\ notesReady
          /\ ~isBufferingNotes
          /\ ~isRefreshingNotes
          /\ bufferedNotesEvents = <<>>
          /\ \A id \in Ids :
               r.lastDelivered[id] # Null =>
                 MapAt(notesById, id) = LaidOver(r.base, The(r.lastDelivered[id]).event)
  /\ (lastDelta # Null /\ ~The(lastDelta).buffering) => bufferedNotesEvents = <<>>

\* A failed refresh has re-applied a buffered 'changed' event that altered the
\* map, and has requested a flush for it.
C21_Witness ==
  /\ RefreshJustFailed
  /\ notesReady
  /\ notesFlushRaf
  /\ \E id \in Ids :
       LET d == The(lastRefresh).lastDelivered[id]
       IN /\ d # Null
          /\ The(d).event.type = "changed"
          /\ MapAt(notesById, id) = Said(The(d).event)
          /\ MapAt(notesById, id) # MapAt(The(lastRefresh).base, id)

\* C21 as stated: after a failed refresh the map shows, for every id an
\* event was buffered for, what the last of them says.
C21_EveryBufferedApplied ==
  RefreshJustFailed =>
    /\ notesReady
    /\ ~isBufferingNotes
    /\ ~isRefreshingNotes
    /\ \A id \in Ids :
         The(lastRefresh).lastDelivered[id] # Null =>
           MapAt(notesById, id) = Said(The(The(lastRefresh).lastDelivered[id]).event)

\* A delta event has just been delivered in Idle / while buffering.
DeliveredInIdle == lastDelta # Null /\ ~The(lastDelta).buffering
DeliveredWhileBuffering == lastDelta # Null /\ The(lastDelta).buffering

\* C22 -- Arrival order per id, as the code has it: an event delivered in
\* Idle leaves the map showing what it says for its id, unless it is an
\* 'added' for an id the map holds, which leaves the entry as it was; an
\* event delivered while buffering replaces the buffered event of its id;
\* and when the refresh settles, the map shows for each such id the last
\* event delivered laid over the base (the snapshot, or the map as it was),
\* again with an 'added' for an id the base holds dropped.
C22_ArrivalOrder ==
  /\ DeliveredInIdle =>
       LET d == The(lastDelta)
       IN MapAt(notesById, d.id) = (IF d.kept # Null THEN d.kept ELSE Said(d.event))
  /\ DeliveredWhileBuffering =>
       LET d == The(lastDelta)
       IN /\ MapHas(bufferedNotesEvents, d.id)
          /\ MapGet(bufferedNotesEvents, d.id) = d.event
          /\ Count([k \in DOMAIN bufferedNotesEvents |-> bufferedNotesEvents[k].id],
                   d.id) = 1
  /\ lastRefresh # Null =>
       \A id \in Ids :
         The(lastRefresh).lastDelivered[id] # Null =>
           MapAt(notesById, id) =
             LaidOver(The(lastRefresh).base, The(The(lastRefresh).lastDelivered[id]).event)

\* In Idle a 'removed' event has just taken a note out of the map that the
\* store still shows.
C22_Witness ==
  /\ DeliveredInIdle
  /\ The(lastDelta).event.type = "removed"
  /\ ~MapHas(notesById, The(lastDelta).id)
  /\ MapHas(notes, The(lastDelta).id)

\* A refresh has settled after two events for one id were buffered, and the
\* map shows what the second, a 'changed', says.
C22_WitnessWindow ==
  /\ lastRefresh # Null
  /\ \E id \in Ids :
       LET d == The(lastRefresh).lastDelivered[id]
       IN /\ d # Null
          /\ The(d).n = 2
          /\ The(d).event.type = "changed"
          /\ MapAt(notesById, id) = Said(The(d).event)

\* C22 as stated: the map entry of an id shows what the last event
\* delivered for it says.
C22_LastArrivedWins ==
  /\ DeliveredInIdle => MapAt(notesById, The(lastDelta).id) = Said(The(lastDelta).event)
  /\ lastRefresh # Null =>
       \A id \in Ids :
         The(lastRefresh).lastDelivered[id] # Null =>
           MapAt(notesById, id) = Said(The(The(lastRefresh).lastDelivered[id]).event)


\* A step of the delta callback in Idle that changed the map.
AppliedInIdleStep ==
  /\ sessions' = sessions
  /\ lastDelta' # Null
  /\ ~The(lastDelta').buffering
  /\ notesById' # notesById

\* A step in which a requested animation frame runs (a teardown and a new
\* session cancel the frame instead).
FrameFiresStep ==
  /\ sessions' = sessions
  /\ notesSyncActive'
  /\ pendingFrames' < pendingFrames

\* C24 -- Coalesced flush: at most one animation frame is pending, and one is
\* pending exactly while the handle is set; an event applied in Idle leaves
\* a frame pending and does not touch the store; the frame, when it runs,
\* publishes the map as it is then, in one store update, and leaves no frame
\* pending.
C24_CoalescedFlush ==
  [][ /\ pendingFrames' <= 1
      /\ notesFlushRaf' <=> pendingFrames' = 1
      /\ AppliedInIdleStep =>
           /\ notesFlushRaf'
           /\ notes' = notes
           /\ reqCount' = reqCount
      /\ FrameFiresStep =>
           /\ notes' = notesById
           /\ notesById' = notesById
           /\ reqCount' = reqCount + 1
           /\ pendingFrames' = 0 ]_vars

\* An event has been applied in Idle while the frame of an earlier event was
\* still pending, and one frame is pending for both.
C24_Witness ==
  /\ DeliveredInIdle
  /\ The(lastDelta).raf
  /\ The(lastDelta).kept = Null
  /\ MapAt(notesById, The(lastDelta).id) = Said(The(lastDelta).event)
  /\ MapAt(notesById, The(lastDelta).id) # MapAt(notes, The(lastDelta).id)
  /\ pendingFrames = 1


\* ========================================================= store actions

\* const userId = get().currentUserId || auth.currentUser?.uid || null
CallerUserId == IF currentUserId # NoUser THEN currentUserId ELSE authUid

\* Math.max(...state.notes.map(n => n.zIndex || 0), 0)
maxZIndex(ns) ==
  LET zs == {OrZero(ns[k].zIndex) : k \in DOMAIN ns} \cup {0}
  IN CHOOSE m \in zs : \A z \in zs : z <= m

\* A select that lifts the note to the current maximum only.
TopZIndexNoBump(ns) == maxZIndex(ns)

\* zIndex: maxZIndex + 1
TopZIndex(ns) == maxZIndex(ns) + 1

\* state.notes.map(note => note.id === id ? { ...note, zIndex } : note)
WithZIndex(ns, id, z) ==
  [k \in DOMAIN ns |-> IF ns[k].id = id THEN [ns[k] EXCEPT !.zIndex = z] ELSE ns[k]]

\* An update that reaches the local state only when the remote call resolves.
NotOptimistic(ns, id, content, t) == ns

\* The optimistic set() of updateNote(id, { content }):
\* notes.map(note => note.id === id ? { ...note, ...updates, updatedAt: new Date() } : note)
OptimisticUpdate(ns, id, content, t) ==
  [k \in DOMAIN ns |->
     IF ns[k].id = id
     THEN [ns[k] EXCEPT !.content = content, !.updatedAt = t]
     ELSE ns[k]]

\* A select that leaves the other two selections as they are.
SelectionKept(kind, id) ==
  [note |-> IF kind = "note" THEN id ELSE selectedNoteId,
   image |-> IF kind = "image" THEN id ELSE selectedImageId,
   file |-> IF kind = "file" THEN id ELSE selectedFileId]

\* set({ selectedImageId: id, selectedNoteId: null, selectedFileId: null }) and
\* its likes for notes and files: the three selection ids after the set().
Selection(kind, id) ==
  [note |-> IF kind = "note" THEN id ELSE None,
   image |-> IF kind = "image" THEN id ELSE None,
   file |-> IF kind = "file" THEN id ELSE None]

SetSelection(sel) ==
  /\ selectedNoteId' = sel.note
  /\ selectedImageId' = sel.image
  /\ selectedFileId' = sel.file

\* History: the call just made joins the log of the last two.
Logged(call) ==
  /\ callLog' = IF callLog = <<>> THEN <<call>> ELSE <<callLog[Len(callLog)], call>>
  /\ nCalls' = nCalls + 1

\* What no store call touches.
CallFrame ==
  /\ UNCHANGED <<images, files, isDarkMode, currentUserId, unsubscribers,
                 notesReady, imagesReady, filesReady, settingsReady, remoteReady>>
  /\ UNCHANGED <<authUid, storeImpl>>
  /\ UNCHANGED extVars
  /\ UNCHANGED <<envVars, writerVars, syncVars, histVars>>

\* A selectNote that sets its timer without clearing the one pending.
ArmKeepingEarlier(timers, t) == timers \cup Some(t)

\* if (__zIndexTimer) clearTimeout(__zIndexTimer);
\* __zIndexTimer = setTimeout(commitZIndex, 1000)
armZIndexTimer(timers, t) == Some(t)

\* A selectNote that goes on whether or not the store holds the note.
AnyNoteToUpdate(ns, id) == TRUE

\* const noteToUpdate = state.notes.find(n => n.id === id); if (noteToUpdate)
noteToUpdate(ns, id) == MapHas(ns, id)

\* selectNote(id) of createCanvasStoreCore, up to its await, and of
\* useFirebaseCanvasStore. id is a note id or None (null).
SelectNote(id) ==
  /\ nCalls < MaxCalls
  /\ Logged([op |-> "selectNote", id |-> id, arg |-> None,
             user |-> storeImpl = "core" \/ CallerUserId # NoUser])
  /\ IF storeImpl = "firebase" /\ CallerUserId = NoUser
     THEN /\ SetSelection(Selection("note", id))
          /\ UNCHANGED <<notes, zIndexTimer, remoteCalls>>
     ELSE IF id # None
          THEN IF noteToUpdate(notes, id)
               THEN /\ notes' = WithZIndex(notes, id, TopZIndex(notes))
                    /\ SetSelection(Selection("note", id))
                    /\ IF storeImpl = "core"
                       THEN /\ remoteCalls' = Append(remoteCalls,
                                 [op |-> "updateNote", id |-> id,
                                  zIndex |-> TopZIndex(notes)])
                            /\ UNCHANGED zIndexTimer
                       ELSE /\ zIndexTimer' =
                                 armZIndexTimer(zIndexTimer,
                                   [userId |-> CallerUserId, id |-> id,
                                    zIndex |-> TopZIndex(notes),
                                    at |-> now + ZINDEX_DEBOUNCE_MS, since |-> now,
                                    session |-> currentUserId])
                            /\ UNCHANGED remoteCalls
               ELSE UNCHANGED <<notes, selectedNoteId, selectedImageId, selectedFileId,
                                zIndexTimer, remoteCalls>>
          ELSE /\ SetSelection(Selection("note", id))
               /\ UNCHANGED <<notes, zIndexTimer, remoteCalls>>
  /\ CallFrame

\* selectImage(id), the same in both stores
SelectImage(id) ==
  /\ nCalls < MaxCalls
  /\ Logged([op |-> "selectImage", id |-> id, arg |-> None, user |-> TRUE])
  /\ SetSelection(Selection("image", id))
  /\ UNCHANGED <<notes, zIndexTimer, remoteCalls>>
  /\ CallFrame

\* selectFile(id), the same in both stores
SelectFile(id) ==
  /\ nCalls < MaxCalls
  /\ Logged([op |-> "selectFile", id |-> id, arg |-> None, user |-> TRUE])
  /\ SetSelection(Selection("file", id))
  /\ UNCHANGED <<notes, zIndexTimer, remoteCalls>>
  /\ CallFrame

\* updateNote(id, { content }) of createCanvasStoreCore, up to its await, and
\* of useFirebaseCanvasStore, which returns at once without a user id.
UpdateNote(id, content) ==
  /\ nCalls < MaxCalls
  /\ Logged([op |-> "updateNote", id |-> id, arg |-> content,
             user |-> storeImpl = "core" \/ CallerUserId # NoUser])
  /\ IF storeImpl = "firebase" /\ CallerUserId = NoUser
     THEN UNCHANGED <<notes, remoteCalls>>
     ELSE /\ notes' = OptimisticUpdate(notes, id, content, now)
          /\ remoteCalls' = Append(remoteCalls,
                                   [op |-> "updateNote", id |-> id, content |-> content])
  /\ UNCHANGED <<selectedNoteId, selectedImageId, selectedFileId, zIndexTimer>>
  /\ CallFrame

\* What nothing but a store call or the session touches.
SettleFrame ==
  /\ callLog' = <<>>
  /\ UNCHANGED <<authUid, storeImpl, nCalls>>
  /\ UNCHANGED extVars
  /\ UNCHANGED <<envVars, writerVars, storeVars, syncVars, histVars>>

\* A pending adapter / Firebase write settles, resolved or rejected: the
\* callers only log a rejection (or set syncError, which is not modelled).
RemoteCallSettles(k) ==
  /\ k \in DOMAIN remoteCalls
  /\ remoteCalls' = [j \in 1..(Len(remoteCalls) - 1) |->
                       IF j < k THEN remoteCalls[j] ELSE remoteCalls[j + 1]]
  /\ UNCHANGED zIndexTimer
  /\ SettleFrame

\* commitZIndex, the callback of __zIndexTimer; dragging is Konva.isDragging().
CommitZIndexOf(t, dragging) ==
  /\ IF dragging
     THEN /\ zIndexTimer' = (zIndexTimer \ {t})
                               \cup Some([t EXCEPT !.at = now + ZINDEX_RETRY_MS])
          /\ UNCHANGED remoteCalls
     ELSE /\ zIndexTimer' = zIndexTimer \ {t}
          /\ remoteCalls' = Append(remoteCalls,
                [op |-> "updateNote", id |-> t.id, zIndex |-> t.zIndex])
  /\ SettleFrame

\* The timer fires, with its delay left out: a pending timer may run at any
\* step.
CommitZIndex(dragging) ==
  /\ zIndexTimer # Null
  /\ CommitZIndexOf(The(zIndexTimer), dragging)

\* The timer fires, with its delay tracked: a timer runs once it is due.
CommitZIndexDue(dragging) ==
  \E t \in zIndexTimer :
    /\ now >= t.at
    /\ CommitZIndexOf(t, dragging)

\* Time passes, a retry delay at a time; a due timer runs before the clock
\* moves on.
ZIndexTick ==
  /\ now < StartTime + MaxZTicks * ZINDEX_RETRY_MS
  /\ \A t \in zIndexTimer : now < t.at
  /\ now' = now + ZINDEX_RETRY_MS
  /\ UNCHANGED <<hidden, hasRequestIdle, writerVars, storeVars, syncVars, histVars>>
  /\ UNCHANGED <<apiVars, extVars>>

\* The user signs out: auth.currentUser becomes null.
SignOut ==
  /\ authUid # NoUser
  /\ authUid' = NoUser
  /\ callLog' = <<>>
  /\ UNCHANGED <<storeImpl, zIndexTimer, remoteCalls, nCalls>>
  /\ UNCHANGED extVars
  /\ UNCHANGED <<envVars, writerVars, storeVars, syncVars, histVars>>


\* ---------------------------------------------------- store specification
\* The zIndex values notes start with: absent, 0 or above; a note of the
\* remote store always has a number (firebaseNoteToLocal).
InitialZIndexes(impl) == IF impl = "core" THEN {Undefined, 0, 2} ELSE {0, 2}

StoredNote(id, z) ==
  [id |-> id, content |-> "", x |-> 100, color |-> "yellow", zIndex |-> z,
   createdAt |-> 1, updatedAt |-> 1]

\* Either store holding one or two notes, nothing selected, no call pending;
\* the remote store is in a session of user u1 that has settled.
StoreInit ==
  /\ storeImpl \in {"core", "firebase"}
  /\ \E z1 \in InitialZIndexes(storeImpl) :
       \/ notes = <<StoredNote("n1", z1)>>
       \/ \E z2 \in InitialZIndexes(storeImpl) :
            notes = <<StoredNote("n1", z1), StoredNote("n2", z2)>>
  /\ notesById = IF storeImpl = "firebase" THEN notes ELSE <<>>
  /\ images = <<"i1">> /\ files = <<"f1">> /\ isDarkMode = FALSE
  /\ selectedNoteId = None /\ selectedImageId = None /\ selectedFileId = None
  /\ currentUserId = IF storeImpl = "firebase" THEN "u1" ELSE NoUser
  /\ authUid = IF storeImpl = "firebase" THEN "u1" ELSE NoUser
  /\ unsubscribers = IF storeImpl = "firebase" THEN AllListeners ELSE {}
  /\ notesReady = (storeImpl = "firebase")
  /\ imagesReady = (storeImpl = "firebase")
  /\ filesReady = (storeImpl = "firebase")
  /\ settingsReady = (storeImpl = "firebase")
  /\ remoteReady = (storeImpl = "firebase")
  /\ notesSyncActive = (storeImpl = "firebase")
  /\ sessions = IF storeImpl = "firebase" THEN 1 ELSE 0
  /\ now = StartTime
  /\ hidden = FALSE
  /\ hasRequestIdle = TRUE
  /\ cacheWriteTimer = NoTimer
  /\ pendingCacheWrite = Null
  /\ lastCacheWriteAt = 0
  /\ idleRuns = <<>>
  /\ idbData = [u \in Users |-> Null]
  /\ lsRemoteCache = [u \in Users |-> Null]
  /\ notesFlushRaf = FALSE
  /\ pendingFrames = 0
  /\ isBufferingNotes = FALSE
  /\ isRefreshingNotes = FALSE
  /\ bufferedNotesEvents = <<>>
  /\ fetchInFlight = FALSE
  /\ staleFetches = 0
  /\ wasConnected = TRUE
  /\ reconnectTimer = FALSE
  /\ reconnectTimeouts = <<>>
  /\ cacheLoadPending = {}
  /\ lastDelivered = NoEvents
  /\ lastNonAdded = NoEvents
  /\ lastRefresh = Null
  /\ lastDelta = Null
  /\ zIndexTimer = Null
  /\ remoteCalls = <<>>
  /\ callLog = <<>>
  /\ nCalls = 0
  /\ reqCount = 0
  /\ lastReqAt = 0
  /\ windows = UntrackedWindows
  /\ cacheWrites = <<>>
  /\ tornDown = FALSE
  /\ lastTeardown = {}
  /\ ExtInit

StoreNext ==
  \/ \E id \in Ids \cup {None} : SelectNote(id)
  \/ \E id \in ImageIds \cup {None} : SelectImage(id)
  \/ \E id \in FileIds \cup {None} : SelectFile(id)
  \/ \E id \in Ids, content \in {"a", "ab"} : UpdateNote(id, content)
  \/ \E k \in 1..MaxCalls : RemoteCallSettles(k)
  \/ \E dragging \in BOOLEAN : CommitZIndex(dragging)
  \/ SignOut
  \/ CleanupFirebaseSync

SpecStore == StoreInit /\ [][StoreNext]_vars


\* --------------------------------------------------- claims on the store

\* The zIndex, as the code reads it, of the note with this id.
ZIndexOf(id) == OrZero(MapGet(notes, id).zIndex)

\* The last two store calls were these two operations, in this order, with
\* nothing else run in between or since.
LastTwoCalls(op1, op2) ==
  /\ Len(callLog) = 2
  /\ callLog[1].op = op1
  /\ callLog[2].op = op2

\* C8 -- Selection invariant: whatever selectNote, selectImage and selectFile
\* calls are made, with any id or null, at most one of selectedNoteId,
\* selectedImageId and selectedFileId is non-null.
C8_AtMostOneSelected ==
  Cardinality({k \in {"note", "image", "file"} :
                 [note |-> selectedNoteId, image |-> selectedImageId,
                  file |-> selectedFileId][k] # None}) <= 1

\* A note was selected, then an image: the image is the one selection.
C8_Witness ==
  /\ LastTwoCalls("selectNote", "selectImage")
  /\ callLog[1].id \in Ids
  /\ callLog[2].id \in ImageIds
  /\ selectedImageId = callLog[2].id
  /\ selectedNoteId = None

CallMade == callLog'[Len(callLog')]

\* A step that is a call of selectNote, selectImage or selectFile.
SelectStep ==
  /\ nCalls' = nCalls + 1
  /\ callLog' # <<>>
  /\ CallMade.op \in {"selectNote", "selectImage", "selectFile"}

\* After the step the one selection is this id of this kind.
SelectedAfter(kind, id) ==
  /\ selectedNoteId' = (IF kind = "note" THEN id ELSE None)
  /\ selectedImageId' = (IF kind = "image" THEN id ELSE None)
  /\ selectedFileId' = (IF kind = "file" THEN id ELSE None)

\* After the step the note is above what every note was before, by one over
\* the highest, and no other note has changed.
RaisedToTop(id) ==
  LET z == OrZero(MapGet(notes', id).zIndex)
  IN /\ \A k \in DOMAIN notes : OrZero(notes[k].zIndex) < z
     /\ \/ z = 1
        \/ \E k \in DOMAIN notes : OrZero(notes[k].zIndex) = z - 1
     /\ DOMAIN notes' = DOMAIN notes
     /\ \A k \in DOMAIN notes : notes[k].id # id => notes'[k] = notes[k]

C27_WitnessMissing ==
  /\ LastTwoCalls("selectImage", "selectNote")
  /\ callLog[1].id \in ImageIds
  /\ callLog[2].id \in Ids
  /\ callLog[2].user
  /\ ~MapHas(notes, callLog[2].id)
  /\ selectedImageId = callLog[1].id
  /\ selectedNoteId = None

PendingUpdates(id) ==
  {k \in DOMAIN remoteCalls :
     remoteCalls[k].op = "updateNote" /\ remoteCalls[k].id = id
       /\ "content" \in DOMAIN remoteCalls[k]}

\* C10 -- Optimistic update ordering: in remote mode (a store with a remote
\* adapter, or the remote store with its user id), right after
\* updateNote(id, {content: "a"}) and then updateNote(id, {content: "ab"}) the
\* note shows "ab" while both remote calls are still pending.
C10_OptimisticOrdering ==
  (/\ LastTwoCalls("updateNote", "updateNote")
   /\ callLog[1].id = callLog[2].id
   /\ callLog[1].arg = "a"
   /\ callLog[2].arg = "ab"
   /\ callLog[1].user
   /\ callLog[2].user
   /\ MapHas(notes, callLog[2].id))
  => /\ MapGet(notes, callLog[2].id).content = "ab"
     /\ \E j, k \in PendingUpdates(callLog[2].id) :
          /\ j < k
          /\ remoteCalls[j].content = "a"
          /\ remoteCalls[k].content = "ab"

\* In the remote store, with its user id, a note was updated to "a" and then
\* to "ab", and neither remote call has settled.
C10_Witness ==
  /\ storeImpl = "firebase"
  /\ LastTwoCalls("updateNote", "updateNote")
  /\ callLog[1].id = callLog[2].id
  /\ callLog[1].arg = "a"
  /\ callLog[2].arg = "ab"
  /\ callLog[1].user
  /\ callLog[2].user
  /\ MapHas(notes, callLog[2].id)
  /\ Len(remoteCalls) = 2

\* ====================================================== storage adapters
\* How many adapter or store calls one behaviour of the actions
\* specification makes at most.
MaxOps == 3

\* localStorage.setItem(key, serialized) stores the value, throws a
\* QuotaExceededError, or throws something else.
WriteOutcomes == {"ok", "quota", "error"}
\* A call of the remote database API resolves or rejects.
RemoteOutcomes == {"ok", "rejected"}
\* The image ids generateId('image') can hand out.
LocalImageIds == {"i1", "i2"}

\* -------------------------------------------------- LocalStorageAdapter
\* { notes: {}, images: {}, files: {}, settings: {} }; files are not modelled
EmptyData == [notes |-> <<>>, images |-> <<>>, settings |-> Null]

\* getData() on the stored value st: a missing key reads as the empty blob
getData(st) == IF st = Null THEN EmptyData ELSE The(st)

\* A setData that raises the warning twice on a full storage.
ToastTwice(ts, outcome) == IF outcome = "quota" THEN ts + 2 ELSE ts

\* if (error.name === 'QuotaExceededError') toast.error(...)
ToastsAfter(ts, outcome) == IF outcome = "quota" THEN ts + 1 ELSE ts

\* setData(data) with st stored and ts warnings raised so far: what is
\* stored and raised afterwards, and whether the call threw.
setData(st, ts, data, outcome) ==
  [stored |-> IF outcome = "ok" THEN Some(data) ELSE st,
   toasts |-> ToastsAfter(ts, outcome),
   outcome |-> outcome,
   threw |-> outcome # "ok",
   wrote |-> TRUE]

\* A method that returns before it writes.
NoWrite(st, ts) ==
  [stored |-> st, toasts |-> ts, outcome |-> "ok", threw |-> FALSE, wrote |-> FALSE]

\* saveNote(note), id being the generated id
LocalSaveNote(st, ts, note, outcome) ==
  setData(st, ts, [getData(st) EXCEPT !.notes = MapSet(@, note)], outcome)

\* An updateNote that writes whether or not it holds the id.
LocalUpdateAlways(st, ts, id, content, t, outcome) ==
  setData(st, ts, getData(st), outcome)

\* updateNote(id, { content, updatedAt })
LocalUpdateNote(st, ts, id, content, t, outcome) ==
  IF ~MapHas(getData(st).notes, id)
  THEN NoWrite(st, ts)
  ELSE setData(st, ts,
               [getData(st) EXCEPT !.notes = OptimisticUpdate(@, id, content, t)],
               outcome)

\* deleteNote(id)
LocalDeleteNote(st, ts, id, outcome) ==
  setData(st, ts, [getData(st) EXCEPT !.notes = MapDelete(@, id)], outcome)

\* A saveImage whose catch block leaves the image in the blob it stores.
SaveImageKept(st, ts, id, outcome) ==
  [setData(st, ts, [getData(st) EXCEPT !.images = Append(@, id)], outcome)
     EXCEPT !.stored = Some([getData(st) EXCEPT !.images = Append(@, id)])]

\* saveImage(image), id being the generated id: the catch block removes the
\* image from the parsed copy only, and rethrows
LocalSaveImage(st, ts, id, outcome) ==
  setData(st, ts, [getData(st) EXCEPT !.images = Append(@, id)], outcome)

\* deleteImage(id)
LocalDeleteImage(st, ts, id, outcome) ==
  setData(st, ts,
          [getData(st) EXCEPT !.images = SelectSeq(@, LAMBDA i : i # id)],
          outcome)

\* saveSettings({ isDarkMode })
LocalSaveSettings(st, ts, dark, outcome) ==
  setData(st, ts, [getData(st) EXCEPT !.settings = Some([isDarkMode |-> dark])],
          outcome)

\* getNotes() / getImages(): Object.values of the parsed blob
LocalGetNotes == getData(lsData).notes
LocalGetImages == getData(lsData).images

\* ------------------------------------------------ FirebaseStorageAdapter
\* A remote update that is issued only for an id the cache holds.
RemoteUpdateIfCached(cache, id) == MapHas(cache, id)

\* updateNote(id, updates): await updateNoteInFirebase(...) comes before the
\* look-up in the cache, whatever the cache holds
RemoteUpdateIssued(cache, id) == TRUE

\* this.cache.notes after updateNote(id, { content }) whose remote call
\* resolved: const cached = cache.get(id); if (cached) cache.set(id, ...)
CacheAfterUpdate(cache, id, content) ==
  IF MapHas(cache, id)
  THEN [k \in DOMAIN cache |->
          IF cache[k].id = id THEN [cache[k] EXCEPT !.content = content]
          ELSE cache[k]]
  ELSE cache

\* ------------------------------------------- store actions and adapters
\* History: what a caller can observe after a call.
View ==
  [notes |-> notes, images |-> images, stored |-> lsData, cache |-> fbCache,
   selected |-> selectedNoteId, toasts |-> toasts]

\* The call leaves the observable state as `after` says.
Apply(after) ==
  /\ notes' = after.notes
  /\ images' = after.images
  /\ lsData' = after.stored
  /\ fbCache' = after.cache
  /\ selectedNoteId' = after.selected
  /\ toasts' = after.toasts

\* History: the call just made joins the log of the last two.
OpLogged(entry) ==
  /\ opLog' = IF opLog = <<>> THEN <<entry>> ELSE <<opLog[Len(opLog)], entry>>
  /\ nOps' = nOps + 1

\* History: one call. outcome is how the storage took the write ("ok" when
\* none was made or it is still pending), threw says that the adapter
\* method rejected, wrote that it called setItem or the remote API.
OpEntry(op, target, id, res, after) ==
  [op |-> op, target |-> target, id |-> id,
   outcome |-> res.outcome, threw |-> res.threw, wrote |-> res.wrote,
   before |-> View, after |-> after]

\* What no call below touches.
ActionsFrame ==
  /\ UNCHANGED <<currentUserId, unsubscribers,
                 notesReady, imagesReady, filesReady, settingsReady, remoteReady>>
  /\ UNCHANGED <<authUid, storeImpl, zIndexTimer, callLog, nCalls>>
  /\ UNCHANGED <<envVars, writerVars, syncVars, histVars, modeVars,
                 sideVars>>

\* generateId(prefix), or the key the remote hands out: an id not seen before
FreshId(pool) == CHOOSE id \in pool \ issuedIds : TRUE

\* A continuation waiting behind an await of a store action.
Microtask(op, id, note, threw) == [op |-> op, id |-> id, note |-> note, threw |-> threw]

\* addNote(x, y) of the store on the local adapter, up to its await:
\* adapter.saveNote runs to its end inside the call.
AddNote(outcome) ==
  /\ storeImpl = "core"
  /\ nOps < MaxOps
  /\ Ids \ issuedIds # {}
  /\ LET id == FreshId(Ids)
     IN
       LET newNote == [StoredNote(id, maxZIndex(notes) + 1)
                         EXCEPT !.createdAt = now, !.updatedAt = now]
           res == LocalSaveNote(lsData, toasts, newNote, outcome)
           after == [View EXCEPT !.stored = res.stored, !.toasts = res.toasts]
       IN /\ Apply(after)
          /\ issuedIds' = issuedIds \cup {id}
          /\ microtasks' = Append(microtasks,
                                  Microtask("addNote", id, Some(newNote), res.threw))
          /\ OpLogged(OpEntry("addNote", "store", id, res, after))
  /\ UNCHANGED <<files, isDarkMode, selectedImageId, selectedFileId, remoteCalls,
                 unhandled, failedImages>>
  /\ ActionsFrame

\* addImage(image) of the store on the local adapter, up to its await
AddImage(outcome) ==
  /\ storeImpl = "core"
  /\ nOps < MaxOps
  /\ LocalImageIds \ issuedIds # {}
  /\ LET id == FreshId(LocalImageIds)
     IN
       LET res == LocalSaveImage(lsData, toasts, id, outcome)
           after == [View EXCEPT !.stored = res.stored, !.toasts = res.toasts]
       IN /\ Apply(after)
          /\ issuedIds' = issuedIds \cup {id}
          /\ failedImages' = IF outcome = "quota" THEN failedImages \cup {id}
                             ELSE failedImages
          /\ microtasks' = Append(microtasks,
                                  Microtask("addImage", id, Null, res.threw))
          /\ OpLogged(OpEntry("addImage", "store", id, res, after))
  /\ UNCHANGED <<files, isDarkMode, selectedImageId, selectedFileId, remoteCalls,
                 unhandled>>
  /\ ActionsFrame

\* The rest of addNote / addImage: the set() after the await, or the catch
\* block, which logs the error.
RunMicrotask ==
  /\ microtasks # <<>>
  /\ LET m == Head(microtasks)
     IN IF m.threw
        THEN UNCHANGED <<notes, images, selectedNoteId, selectedImageId,
                         selectedFileId>>
        ELSE IF m.op = "addNote"
             THEN /\ notes' = Append(notes, The(m.note))
                  /\ SetSelection(Selection("note", m.id))
                  /\ UNCHANGED images
             ELSE /\ images' = Append(images, m.id)
                  /\ SetSelection(Selection("image", m.id))
                  /\ UNCHANGED notes
  /\ microtasks' = Tail(microtasks)
  /\ opLog' = <<>>
  /\ UNCHANGED <<files, isDarkMode, remoteCalls, lsData, toasts, fbCache, unhandled,
                 issuedIds, failedImages, nOps>>
  /\ ActionsFrame

\* A catch block that takes the optimistic change back.
RevertOnCatch(before, optimistic, threw) == IF threw THEN before ELSE optimistic

\* catch (error) { console.error(...) }: the entities of the store after the
\* try / catch around the adapter call are those of the optimistic set().
CatchLogsOnly(before, optimistic, threw) == optimistic

\* updateNote(id, { content }) of the store on the local adapter: the
\* optimistic set(), then adapter.updateNote inside try / catch.
UpdateStoredNote(id, content, outcome) ==
  /\ storeImpl = "core"
  /\ nOps < MaxOps
  /\ LET res == LocalUpdateNote(lsData, toasts, id, content, now, outcome)
         after == [View EXCEPT !.notes = CatchLogsOnly(notes,
                                                       OptimisticUpdate(notes, id, content, now),
                                                       res.threw),
                               !.stored = res.stored, !.toasts = res.toasts]
     IN /\ res.wrote \/ outcome = "ok"
        /\ Apply(after)
        /\ OpLogged(OpEntry("updateNote", "store", id, res, after))
  /\ UNCHANGED <<files, isDarkMode, selectedImageId, selectedFileId, remoteCalls,
                 microtasks, unhandled, issuedIds, failedImages>>
  /\ ActionsFrame

\* deleteNote(id): of the store on the local adapter (optimistic filter,
\* then adapter.deleteNote inside try / catch), and of
\* useFirebaseCanvasStore (optimistic filter, then deleteNoteFromFirebase
\* with a .catch), which hands over to the local store without a user id.
DeleteNote(id, outcome) ==
  /\ nOps < MaxOps
  /\ LET sel == IF selectedNoteId = id THEN None ELSE selectedNoteId
     IN IF storeImpl = "core"
        THEN LET res == LocalDeleteNote(lsData, toasts, id, outcome)
                 after == [View EXCEPT !.notes = CatchLogsOnly(notes, MapDelete(notes, id),
                                                               res.threw),
                                       !.selected = sel,
                                       !.stored = res.stored, !.toasts = res.toasts]
             IN /\ Apply(after)
                /\ OpLogged(OpEntry("deleteNote", "store", id, res, after))
                /\ UNCHANGED remoteCalls
        ELSE /\ outcome = "ok"
             /\ IF CallerUserId = NoUser
                THEN /\ Apply(View)
                     /\ OpLogged(OpEntry("deleteNote", "store", id,
                                         NoWrite(lsData, toasts), View))
                     /\ UNCHANGED remoteCalls
                ELSE LET after == [View EXCEPT !.notes = MapDelete(notes, id),
                                               !.selected = sel]
                     IN /\ Apply(after)
                        /\ OpLogged(OpEntry("deleteNote", "store", id,
                                            [NoWrite(lsData, toasts)
                                               EXCEPT !.wrote = TRUE], after))
                        /\ remoteCalls' = Append(remoteCalls,
                              [op |-> "deleteNote", id |-> id, caught |-> TRUE])
  /\ UNCHANGED <<files, isDarkMode, selectedImageId, selectedFileId,
                 microtasks, unhandled, issuedIds, failedImages>>
  /\ ActionsFrame

\* The adapter.deleteNote / adapter.deleteImage calls clearCanvas makes, in
\* order, each reading and rewriting the blob; the write for an id in fails
\* meets a full storage.
RECURSIVE DeleteEach(_, _, _, _)
DeleteEach(st, ts, targets, fails) ==
  IF targets = <<>>
  THEN NoWrite(st, ts)
  ELSE LET t == Head(targets)
           outcome == IF t.id \in fails THEN "quota" ELSE "ok"
           res == IF t.kind = "note"
                  THEN LocalDeleteNote(st, ts, t.id, outcome)
                  ELSE LocalDeleteImage(st, ts, t.id, outcome)
           rest == DeleteEach(res.stored, res.toasts, Tail(targets), fails)
       IN [rest EXCEPT !.threw = res.threw \/ rest.threw, !.wrote = TRUE,
                       !.outcome = IF res.threw THEN res.outcome ELSE rest.outcome]

\* notes.map(...), images.map(...) of clearCanvas
ClearTargets ==
  [k \in DOMAIN notes |-> [kind |-> "note", id |-> notes[k].id]]
    \o [k \in DOMAIN images |-> [kind |-> "image", id |-> images[k]]]

\* clearCanvas(): of the store on the local adapter (set() to the empty
\* canvas, then every delete inside one try / catch), and of
\* useFirebaseCanvasStore (the remote deletes under one .catch; the
\* listeners empty the canvas later).
ClearCanvas(fails) ==
  /\ nOps < MaxOps
  /\ IF storeImpl = "core"
     THEN LET res == DeleteEach(lsData, toasts, ClearTargets, fails)
              after == [View EXCEPT !.notes = <<>>, !.images = <<>>,
                                    !.selected = None,
                                    !.stored = res.stored, !.toasts = res.toasts]
          IN /\ fails \subseteq {ClearTargets[k].id : k \in DOMAIN ClearTargets}
             /\ Apply(after)
             /\ files' = <<>>
             /\ selectedImageId' = None
             /\ selectedFileId' = None
             /\ OpLogged(OpEntry("clearCanvas", "store", None, res, after))
             /\ UNCHANGED remoteCalls
     ELSE /\ fails = {}
          /\ CallerUserId # NoUser
          /\ Apply(View)
          /\ OpLogged(OpEntry("clearCanvas", "store", None,
                              [NoWrite(lsData, toasts) EXCEPT !.wrote = TRUE], View))
          /\ remoteCalls' = Append(remoteCalls,
                [op |-> "clearCanvas", id |-> None, caught |-> TRUE])
          /\ UNCHANGED <<files, selectedImageId, selectedFileId>>
  /\ UNCHANGED <<isDarkMode, microtasks, unhandled, issuedIds, failedImages>>
  /\ ActionsFrame

\* set({ isDarkMode }) and the save that follows it: adapter.saveSettings
\* inside try / catch in the store on the local adapter; in
\* useFirebaseCanvasStore saveSettings(userId, ...) with a user id, its
\* promise dropped.
SaveDarkMode(op, dark, outcome) ==
  /\ nOps < MaxOps
  /\ isDarkMode' = dark
  /\ IF storeImpl = "core"
     THEN LET res == LocalSaveSettings(lsData, toasts, dark, outcome)
              after == [View EXCEPT !.stored = res.stored, !.toasts = res.toasts]
          IN /\ Apply(after)
             /\ OpLogged(OpEntry(op, "store", None, res, after))
             /\ UNCHANGED remoteCalls
     ELSE /\ outcome = "ok"
          /\ Apply(View)
          /\ OpLogged(OpEntry(op, "store", None,
                              [NoWrite(lsData, toasts)
                                 EXCEPT !.wrote = (CallerUserId # NoUser)], View))
          /\ remoteCalls' = IF CallerUserId # NoUser
                            THEN Append(remoteCalls,
                                   [op |-> "saveSettings", id |-> None,
                                    caught |-> FALSE])
                            ELSE remoteCalls
  /\ UNCHANGED <<files, selectedImageId, selectedFileId,
                 microtasks, unhandled, issuedIds, failedImages>>
  /\ ActionsFrame

\* toggleDarkMode()
ToggleDarkMode(outcome) == SaveDarkMode("toggleDarkMode", ~isDarkMode, outcome)

\* setDarkMode(isDark)
SetDarkMode(isDark, outcome) == SaveDarkMode("setDarkMode", isDark, outcome)

\* A pending call of the remote API rejects: the .catch of the store action
\* takes the rejection, if the action attached one.
RemoteCallRejects(k) ==
  /\ k \in DOMAIN remoteCalls
  /\ remoteCalls' = [j \in 1..(Len(remoteCalls) - 1) |->
                       IF j < k THEN remoteCalls[j] ELSE remoteCalls[j + 1]]
  /\ unhandled' = IF remoteCalls[k].caught THEN unhandled ELSE unhandled + 1
  /\ opLog' = <<>>
  /\ UNCHANGED <<lsData, toasts, fbCache, microtasks, issuedIds, failedImages, nOps>>
  /\ UNCHANGED <<zIndexTimer, authUid, storeImpl, callLog, nCalls>>
  /\ UNCHANGED <<envVars, writerVars, storeVars, syncVars, histVars, modeVars,
                 sideVars>>

\* FirebaseStorageAdapter.saveNote(note), awaited by its caller; remote is
\* how saveNoteToFirebase settles.
AdapterSaveNote(remote) ==
  /\ storeImpl = "firebase"
  /\ nOps < MaxOps
  /\ Ids \ issuedIds # {}
  /\ LET id == FreshId(Ids)
     IN
       LET note == StoredNote(id, 0)
           after == [View EXCEPT !.cache = IF remote = "ok" THEN MapSet(fbCache, note)
                                           ELSE fbCache]
       IN /\ Apply(after)
          /\ issuedIds' = issuedIds \cup {id}
          /\ OpLogged(OpEntry("saveNote", "adapter", id,
                              [NoWrite(lsData, toasts)
                                 EXCEPT !.wrote = TRUE, !.outcome = remote,
                                        !.threw = (remote # "ok")],
                              after))
  /\ UNCHANGED <<files, isDarkMode, selectedImageId, selectedFileId, remoteCalls,
                 microtasks, unhandled, failedImages>>
  /\ ActionsFrame

\* FirebaseStorageAdapter.updateNote(id, { content }), awaited by its caller
AdapterUpdateNote(id, content, remote) ==
  /\ storeImpl = "firebase"
  /\ nOps < MaxOps
  /\ LET issued == RemoteUpdateIssued(fbCache, id)
         after == [View EXCEPT !.cache = IF issued /\ remote # "ok" THEN fbCache
                                         ELSE CacheAfterUpdate(fbCache, id, content)]
     IN /\ issued \/ remote = "ok"
        /\ Apply(after)
        /\ OpLogged(OpEntry("updateNote", "adapter", id,
                            [NoWrite(lsData, toasts)
                               EXCEPT !.wrote = issued, !.outcome = remote,
                                      !.threw = (issued /\ remote # "ok")],
                            after))
  /\ UNCHANGED <<files, isDarkMode, selectedImageId, selectedFileId, remoteCalls,
                 microtasks, unhandled, issuedIds, failedImages>>
  /\ ActionsFrame

\* FirebaseStorageAdapter.deleteNote(id), awaited by its caller
AdapterDeleteNote(id, remote) ==
  /\ storeImpl = "firebase"
  /\ nOps < MaxOps
  /\ LET after == [View EXCEPT !.cache = IF remote = "ok" THEN MapDelete(fbCache, id)
                                         ELSE fbCache]
     IN /\ Apply(after)
        /\ OpLogged(OpEntry("deleteNote", "adapter", id,
                            [NoWrite(lsData, toasts)
                               EXCEPT !.wrote = TRUE, !.outcome = remote,
                                        !.threw = (remote # "ok")],
                            after))
  /\ UNCHANGED <<files, isDarkMode, selectedImageId, selectedFileId, remoteCalls,
                 microtasks, unhandled, issuedIds, failedImages>>
  /\ ActionsFrame

\* ------------------------------------------------- actions specification
\* The notes a canvas starts with.
InitialNotes == {<<>>, <<StoredNote("n1", 0)>>,
                 <<StoredNote("n1", 0), StoredNote("n2", 0)>>}

\* Either the store on the local adapter, its blob holding what the store
\* holds (no blob yet on an empty canvas), or useFirebaseCanvasStore in a
\* settled session of user u1 next to a FirebaseStorageAdapter whose cache
\* holds the same notes.
ActionsInit ==
  /\ storeImpl \in {"core", "firebase"}
  /\ notes \in InitialNotes
  /\ lsData = IF storeImpl = "core" /\ notes # <<>>
              THEN Some([EmptyData EXCEPT !.notes = notes]) ELSE Null
  /\ fbCache = IF storeImpl = "firebase" THEN notes ELSE <<>>
  /\ issuedIds = {notes[k].id : k \in DOMAIN notes}
  /\ toasts = 0
  /\ microtasks = <<>>
  /\ unhandled = 0
  /\ failedImages = {}
  /\ opLog = <<>>
  /\ nOps = 0
  /\ notesById = IF storeImpl = "firebase" THEN notes ELSE <<>>
  /\ images = <<>> /\ files = <<>> /\ isDarkMode = FALSE
  /\ selectedNoteId = None /\ selectedImageId = None /\ selectedFileId = None
  /\ currentUserId = IF storeImpl = "firebase" THEN "u1" ELSE NoUser
  /\ authUid = IF storeImpl = "firebase" THEN "u1" ELSE NoUser
  /\ unsubscribers = IF storeImpl = "firebase" THEN AllListeners ELSE {}
  /\ notesReady = (storeImpl = "firebase")
  /\ imagesReady = (storeImpl = "firebase")
  /\ filesReady = (storeImpl = "firebase")
  /\ settingsReady = (storeImpl = "firebase")
  /\ remoteReady = (storeImpl = "firebase")
  /\ notesSyncActive = (storeImpl = "firebase")
  /\ sessions = IF storeImpl = "firebase" THEN 1 ELSE 0
  /\ now = StartTime
  /\ hidden = FALSE
  /\ hasRequestIdle = TRUE
  /\ cacheWriteTimer = NoTimer
  /\ pendingCacheWrite = Null
  /\ lastCacheWriteAt = 0
  /\ idleRuns = <<>>
  /\ idbData = [u \in Users |-> Null]
  /\ lsRemoteCache = [u \in Users |-> Null]
  /\ notesFlushRaf = FALSE
  /\ pendingFrames = 0
  /\ isBufferingNotes = FALSE
  /\ isRefreshingNotes = FALSE
  /\ bufferedNotesEvents = <<>>
  /\ fetchInFlight = FALSE
  /\ staleFetches = 0
  /\ wasConnected = TRUE
  /\ reconnectTimer = FALSE
  /\ reconnectTimeouts = <<>>
  /\ cacheLoadPending = {}
  /\ lastDelivered = NoEvents
  /\ lastNonAdded = NoEvents
  /\ lastRefresh = Null
  /\ lastDelta = Null
  /\ zIndexTimer = Null
  /\ remoteCalls = <<>>
  /\ callLog = <<>>
  /\ nCalls = 0
  /\ reqCount = 0
  /\ lastReqAt = 0
  /\ windows = UntrackedWindows
  /\ cacheWrites = <<>>
  /\ tornDown = FALSE
  /\ lastTeardown = {}
  /\ ModeIdle
  /\ SideIdle

ActionsNext ==
  \/ \E outcome \in WriteOutcomes : AddNote(outcome)
  \/ \E outcome \in WriteOutcomes : AddImage(outcome)
  \/ RunMicrotask
  \/ \E id \in Ids, content \in {"a"}, outcome \in WriteOutcomes :
       UpdateStoredNote(id, content, outcome)
  \/ \E id \in Ids, outcome \in WriteOutcomes : DeleteNote(id, outcome)
  \/ \E fails \in SUBSET (Ids \cup LocalImageIds) : ClearCanvas(fails)
  \/ \E outcome \in WriteOutcomes : ToggleDarkMode(outcome)
  \/ \E isDark \in BOOLEAN, outcome \in WriteOutcomes : SetDarkMode(isDark, outcome)
  \/ \E k \in 1..MaxOps : RemoteCallSettles(k)
  \/ \E k \in 1..MaxOps : RemoteCallRejects(k)
  \/ \E remote \in RemoteOutcomes : AdapterSaveNote(remote)
  \/ \E id \in Ids, content \in {"a"}, remote \in RemoteOutcomes :
       AdapterUpdateNote(id, content, remote)
  \/ \E id \in Ids, remote \in RemoteOutcomes : AdapterDeleteNote(id, remote)

SpecActions == ActionsInit /\ [][ActionsNext]_vars

\* ------------------------------------------------------- claims C11 - C15
LastOp == opLog[Len(opLog)]

\* The last two calls were deleteNote calls for one id on one object, and
\* the storage took the write of both.
SameDeleteTwice ==
  /\ Len(opLog) = 2
  /\ opLog[1].op = "deleteNote" /\ opLog[2].op = "deleteNote"
  /\ opLog[1].target = opLog[2].target
  /\ opLog[1].id = opLog[2].id
  /\ opLog[1].outcome = "ok" /\ opLog[2].outcome = "ok"

\* C11: deleting one note id twice in a row, by the store action or by the
\* adapter, leaves the notes, the blob, the cache and the selection as the
\* first delete left them, and the second call raises no error.
C11_DeleteIdempotent ==
  SameDeleteTwice => /\ opLog[2].after = opLog[1].after
                     /\ ~opLog[2].threw

\* a note was deleted by the store on the local adapter, then deleted again
C11_Witness ==
  /\ SameDeleteTwice
  /\ storeImpl = "core"
  /\ opLog[1].after.notes # opLog[1].before.notes
  /\ opLog[1].after.stored # opLog[1].before.stored

\* the same through FirebaseStorageAdapter.deleteNote
C11_WitnessAdapter ==
  /\ SameDeleteTwice
  /\ opLog[1].target = "adapter"
  /\ opLog[1].after.cache # opLog[1].before.cache

\* The last call was updateNote(id, ...) for an id that the adapter under
\* the call did not hold: the local blob, or the cache of the remote adapter.
UpdateOfMissingId ==
  /\ opLog # <<>>
  /\ LastOp.op = "updateNote"
  /\ IF LastOp.target = "adapter"
     THEN ~MapHas(LastOp.before.cache, LastOp.id)
     ELSE ~MapHas(getData(LastOp.before.stored).notes, LastOp.id)

\* C12: with either adapter, updateNote(id, fields) for an id it does not
\* hold returns without an error, performs no write, and leaves what
\* getNotes() returns as it was.
C12_UpdateMissingIsNoOp ==
  UpdateOfMissingId => /\ ~LastOp.threw
                       /\ ~LastOp.wrote
                       /\ LastOp.after.stored = LastOp.before.stored
                       /\ LastOp.after.cache = LastOp.before.cache

\* C12, the local adapter alone: the claim as it holds of
\* LocalStorageAdapter.updateNote.
C12_LocalUpdateMissingIsNoOp ==
  UpdateOfMissingId /\ LastOp.target = "store"
    => /\ ~LastOp.threw
       /\ ~LastOp.wrote
       /\ LastOp.after.stored = LastOp.before.stored

\* An addImage call met a full storage, and a later one went through.
C13_Witness ==
  /\ failedImages # {}
  /\ microtasks = <<>>
  /\ images # <<>>
  /\ LocalGetImages # <<>>

\* C13: an image whose saveImage met a QuotaExceededError is in no later
\* getImages() and never in the images of the store, and the failing call
\* raised the warning exactly once.
C13_QuotaImageAbsent ==
  /\ \A id \in failedImages :
       /\ \A k \in DOMAIN LocalGetImages : LocalGetImages[k] # id
       /\ \A k \in DOMAIN images : images[k] # id
  /\ opLog # <<>> /\ LastOp.op = "addImage" /\ LastOp.outcome = "quota"
       => LastOp.after.toasts = LastOp.before.toasts + 1

\* C14: after a store action of the local mode whose adapter write failed
\* for quota, the notes and images in memory are those of the persisted
\* blob, and the warning was raised.
C14_RolledBack ==
  /\ opLog # <<>>
  /\ storeImpl = "core"
  /\ LastOp.outcome = "quota"
  /\ microtasks = <<>>
  => /\ notes = LocalGetNotes
     /\ images = LocalGetImages
     /\ LastOp.after.toasts > LastOp.before.toasts

\* C14, what the code keeps of it: the warning is raised, and the blob is
\* as it was before the failed write.
C14_WarnedAndBlobKept ==
  /\ opLog # <<>>
  /\ storeImpl = "core"
  /\ LastOp.outcome = "quota"
  /\ LastOp.op # "clearCanvas"
  => /\ LastOp.after.toasts = LastOp.before.toasts + 1
     /\ LastOp.after.stored = LastOp.before.stored

C26_WitnessDelete ==
  /\ opLog # <<>>
  /\ storeImpl = "core"
  /\ LastOp.op = "deleteNote"
  /\ LastOp.target = "store"
  /\ LastOp.threw
  /\ MapHas(LastOp.before.notes, LastOp.id)
  /\ ~MapHas(notes, LastOp.id)
  /\ lsData = LastOp.before.stored

\* The entities the store held when the last call was made that the blob
\* still holds.
StillStored ==
  ({LastOp.before.notes[k].id : k \in DOMAIN LastOp.before.notes}
      \cap {LocalGetNotes[k].id : k \in DOMAIN LocalGetNotes})
    \cup ({LastOp.before.images[k] : k \in DOMAIN LastOp.before.images}
      \cap {LocalGetImages[k] : k \in DOMAIN LocalGetImages})

\* Right after clearCanvas the store holds no note, image or file and no
\* selection, and every entity it held has had its delete call: it is out
\* of the blob unless its write failed and raised the warning.
ClearedAtOnce ==
  /\ notes = <<>> /\ images = <<>> /\ files = <<>>
  /\ selectedNoteId = None /\ selectedImageId = None /\ selectedFileId = None
  /\ storeImpl = "core" =>
       Cardinality(StillStored) <= toasts - LastOp.before.toasts

\* C29 -- clearCanvas empties notes, images and files and resets the three
\* selection ids in one state update, in either store, and every entity
\* present has its delete call made even if some of the calls fail.
C29_ClearedAtOnce ==
  (opLog # <<>> /\ LastOp.op = "clearCanvas") => ClearedAtOnce

\* C29 for the store on the local adapter alone.
C29_CoreClearedAtOnce ==
  (opLog # <<>> /\ LastOp.op = "clearCanvas" /\ storeImpl = "core") => ClearedAtOnce

\* clearCanvas of the store on the local adapter has met a full storage for
\* one of two notes: the canvas is empty, the blob keeps that note.
C29_WitnessCore ==
  /\ opLog # <<>>
  /\ LastOp.op = "clearCanvas"
  /\ storeImpl = "core"
  /\ Len(LastOp.before.notes) = 2
  /\ Len(LocalGetNotes) = 1
  /\ notes = <<>>

\* C15: no rejection of an adapter or remote call is left without a handler
\* by the store action that made the call.
C15_NoFailureEscapes == unhandled = 0

\* ========================================================= mode selector
\* The users that sign in while the provider is mounted.
ModeUsers == {"u1", "u2"}
\* canvasId of the shared canvas store: null, the empty string, or an id
CanvasIds == {None, "", "c1"}

\* const isSharedMode = !!sharedCanvasId
isSharedMode(canvasId) == canvasId # None /\ canvasId # ""

\* A private mode that does not wait for auth to finish loading.
FirebaseModeWhileLoading(loading, user, anonymous, shared) ==
  user # NoUser /\ ~anonymous /\ ~shared

\* const isFirebaseMode = !loading && !!user && !user.isAnonymous && !isSharedMode
isFirebaseMode(loading, user, anonymous, shared) ==
  ~loading /\ user # NoUser /\ ~anonymous /\ ~shared

\* useAppStore(selector): the store whose result it returns
useAppStore(fb, shared) ==
  IF shared THEN "shared" ELSE IF fb THEN "firebase" ELSE "local"

\* What the render reads: useAuth() and the canvas id of the shared store.
Inputs ==
  [loading |-> authLoading, user |-> authUser, anonymous |-> authAnonymous,
   canvasId |-> sharedCanvasId]

\* An effect whose clean-up function does nothing.
NoEffectCleanup(c) == "none"

\* The clean-up function the last run of the effect returned, c being what
\* it closed over: cleanupFirebaseSync() if (isFirebaseMode),
\* cleanupSharedCanvas() else if (isSharedMode)
EffectCleanup(c) ==
  IF c = Null THEN "none"
  ELSE IF ~The(c).registered THEN "none"
  ELSE IF The(c).fb THEN "firebase"
  ELSE IF The(c).shared THEN "shared"
  ELSE "none"

\* History: the listeners left once those on the unsubscribers array ran.
Detached(live) == IF unsubscribers # {} THEN live \ {sessions} ELSE live

\* onAuthStateChanged: auth finishes loading, a user signs in or out
AuthStateChanged(loading, user, anonymous) ==
  /\ anonymous => user # NoUser
  /\ <<loading, user, anonymous>> # <<authLoading, authUser, authAnonymous>>
  /\ authLoading' = loading
  /\ authUser' = user
  /\ authAnonymous' = anonymous
  /\ UNCHANGED <<sharedCanvasId, activeMode, committed, liveListeners>>
  /\ UNCHANGED <<envVars, writerVars, storeVars, syncVars, histVars, apiVars,
                 adapterVars, sideVars>>

\* The shared canvas store sets its canvasId: a canvas is joined or left.
SharedCanvasChanged(canvasId) ==
  /\ canvasId # sharedCanvasId
  /\ sharedCanvasId' = canvasId
  /\ UNCHANGED <<authLoading, authUser, authAnonymous, activeMode, committed,
                 liveListeners>>
  /\ UNCHANGED <<envVars, writerVars, storeVars, syncVars, histVars, apiVars,
                 adapterVars, sideVars>>

\* StoreProvider renders with changed inputs and its effect runs again: the
\* clean-up of the last run, then the body. pendingToken says that
\* sessionStorage holds a pendingShareToken, on which the body leaves for
\* the share link before it does anything else.
ProviderCommit(pendingToken) ==
  LET shared == isSharedMode(sharedCanvasId)
      fb == isFirebaseMode(authLoading, authUser, authAnonymous, shared)
      redirect == authUser # NoUser /\ ~authLoading /\ pendingToken
      body == IF redirect \/ shared THEN "none"
              ELSE IF fb /\ authUser # NoUser THEN "init"
              ELSE "cleanup"
  IN /\ IF committed = Null THEN TRUE ELSE The(committed).inputs # Inputs
     /\ pendingToken => redirect
     /\ activeMode' = useAppStore(fb, shared)
     /\ committed' = Some([inputs |-> Inputs, fb |-> fb, shared |-> shared,
                           registered |-> ~redirect])
     /\ IF body = "init"
        THEN /\ InitSession(authUser)
             /\ liveListeners' = Detached(liveListeners) \cup {sessions + 1}
             /\ UNCHANGED apiVars
        ELSE IF body = "cleanup" \/ EffectCleanup(committed) = "firebase"
        THEN /\ Teardown
             /\ liveListeners' = Detached(liveListeners)
        ELSE UNCHANGED <<envVars, writerVars, storeVars, syncVars, histVars,
                         apiVars, liveListeners>>
     /\ UNCHANGED <<authLoading, authUser, authAnonymous, sharedCanvasId>>
     /\ UNCHANGED <<adapterVars, sideVars>>

\* StoreProvider unmounts: the clean-up of the last run of the effect
ProviderUnmount ==
  /\ committed # Null
  /\ activeMode' = "unmounted"
  /\ committed' = Null
  /\ IF EffectCleanup(committed) = "firebase"
     THEN /\ Teardown
          /\ liveListeners' = Detached(liveListeners)
     ELSE UNCHANGED <<envVars, writerVars, storeVars, syncVars, histVars,
                      apiVars, liveListeners>>
  /\ UNCHANGED <<authLoading, authUser, authAnonymous, sharedCanvasId>>
  /\ UNCHANGED <<adapterVars, sideVars>>

\* -------------------------------------------- mode-selector specification
\* The store as constructed and the provider not yet rendered.
ModeInit == NotesInit

ModeNext ==
  \/ \E loading \in BOOLEAN, user \in ModeUsers \cup {NoUser}, anonymous \in BOOLEAN :
       AuthStateChanged(loading, user, anonymous)
  \/ \E canvasId \in CanvasIds : SharedCanvasChanged(canvasId)
  \/ \E pendingToken \in BOOLEAN : ProviderCommit(pendingToken)
  \/ ProviderUnmount

SpecMode == ModeInit /\ [][ModeNext]_vars

\* ------------------------------------------------------- claims C16 - C17
\* The provider has rendered, and the private store ran a session before.
C16_Witness ==
  /\ activeMode = "local"
  /\ committed # Null
  /\ The(committed).inputs.user # NoUser
  /\ The(committed).inputs.loading
  /\ sessions > 0

\* C16: the store in use is a function of the inputs of the last render
\* alone, and exactly one of three: the shared store if a shared canvas id
\* is set; else the private remote store iff auth is not loading and a
\* non-anonymous user is present; else the local store.
C16_ModeSelection ==
  committed # Null =>
    LET c == The(committed).inputs
        set == c.canvasId \notin {None, ""}
        signedIn == ~c.loading /\ c.user # NoUser /\ ~c.anonymous
    IN /\ activeMode \in {"shared", "firebase", "local"}
       /\ activeMode = "shared" <=> set
       /\ activeMode = "firebase" <=> ~set /\ signedIn
       /\ activeMode = "local" <=> ~set /\ ~signedIn

TeardownStep == unsubscribers # {} /\ currentUserId' = NoUser

\* A step taken after a teardown, before any new session.
AfterTeardownStep == sessions > 0 /\ currentUserId = NoUser /\ currentUserId' = NoUser

C18_Witness ==
  /\ currentUserId = NoUser
  /\ lastTeardown = AllListeners \cup {"reconnectTimer", "notesFlushRaf", "cacheWriteTimer"}

\* A teardown that found a fetch in flight, which has settled since.
C18_WitnessFetchSettled ==
  /\ currentUserId = NoUser
  /\ AllListeners \subseteq lastTeardown
  /\ isRefreshingNotes = FALSE
  /\ notesReady

\* C18: a teardown leaves no reconnect timer, no animation frame and no
\* cache-write timer pending, no listener attached and the session inactive;
\* from then on, until a new session starts, no fetch is started, no timer or
\* frame is requested and the notes of the store do not change.
C18_TeardownCancels ==
  [][ /\ TeardownStep =>
           /\ reconnectTimer' = FALSE
           /\ notesFlushRaf' = FALSE
           /\ cacheWriteTimer' = NoTimer
           /\ pendingCacheWrite' = Null
           /\ unsubscribers' = {}
           /\ notesSyncActive' = FALSE
      /\ AfterTeardownStep =>
           /\ fetchInFlight' => fetchInFlight
           /\ reconnectTimer' = FALSE
           /\ notesFlushRaf' = FALSE
           /\ cacheWriteTimer' = NoTimer
           /\ notes' = notes
           /\ reqCount' = reqCount ]_vars


\* ================================================== undo/redo history
\* useHistoryStore: two stacks of whole-state snapshots and the current one.

\* pushState's default limit
DefaultLimit == 50

\* The snapshots handed to pushState. Marked is one snapshot followed through
\* the stacks; the others are alike. A copy of Marked is handed over only
\* while the history holds none.
Plain == "s0"
Marked == "s1"
HistorySnapshots == {Plain, Marked}

Holds(stack, x) == \E k \in DOMAIN stack : stack[k] = x
InHistory(x) == Holds(undoStack, x) \/ Holds(redoStack, x) \/ currentState = x

\* stack.slice(0, -1)
Front(stack) == SubSeq(stack, 1, Len(stack) - 1)

\* A pushState that drops the snapshot just pushed when over the limit.
DropNewest(stack, previousState, limit) ==
  LET appended == Append(stack, previousState)
  IN IF Len(appended) > limit THEN Front(appended) ELSE appended

\* pushState: newUndoStack, after the shift()
NewUndoStack(stack, previousState, limit) ==
  LET appended == Append(stack, previousState)
  IN IF Len(appended) > limit THEN Tail(appended) ELSE appended

HistoryFrame ==
  /\ UNCHANGED <<envVars, writerVars, storeVars, syncVars, histVars, apiVars>>
  /\ UNCHANGED <<adapterVars, modeVars, joyVars>>

HistoryOp(op, full) == [op |-> op, full |-> full]

\* pushState(previousState, nextState, limit)
pushState(previousState, nextState, limit) ==
  /\ undoStack' = NewUndoStack(undoStack, previousState, limit)
  /\ currentState' = nextState
  /\ redoStack' = <<>>
  /\ lastHistoryOp' = HistoryOp("pushState", Len(undoStack) >= limit)
  /\ HistoryFrame

\* const { undoStack, currentState, redoStack } = get()
HistoryState ==
  [undoStack |-> undoStack, redoStack |-> redoStack, currentState |-> currentState]

\* set({ undoStack, redoStack, currentState })
SetHistory(h) ==
  /\ undoStack' = h.undoStack
  /\ redoStack' = h.redoStack
  /\ currentState' = h.currentState

\* An undo that does not keep the current state for redo.
UndoForgetting(h) ==
  IF Len(h.undoStack) = 0
  THEN [state |-> h, returned |-> None]
  ELSE [state |-> [undoStack |-> Front(h.undoStack),
                   redoStack |-> h.redoStack,
                   currentState |-> h.undoStack[Len(h.undoStack)]],
        returned |-> h.undoStack[Len(h.undoStack)]]

\* undo() on the history h: the history it leaves and the value it returns
UndoOf(h) ==
  IF Len(h.undoStack) = 0
  THEN [state |-> h, returned |-> None]
  ELSE [state |-> [undoStack |-> Front(h.undoStack),
                   redoStack |-> IF h.currentState # None
                                 THEN Append(h.redoStack, h.currentState)
                                 ELSE h.redoStack,
                   currentState |-> h.undoStack[Len(h.undoStack)]],
        returned |-> h.undoStack[Len(h.undoStack)]]

\* redo() on the history h: the history it leaves and the value it returns
RedoOf(h) ==
  IF Len(h.redoStack) = 0
  THEN [state |-> h, returned |-> None]
  ELSE [state |-> [undoStack |-> IF h.currentState # None
                                 THEN Append(h.undoStack, h.currentState)
                                 ELSE h.undoStack,
                   redoStack |-> Front(h.redoStack),
                   currentState |-> h.redoStack[Len(h.redoStack)]],
        returned |-> h.redoStack[Len(h.redoStack)]]

\* undo()
undo ==
  /\ SetHistory(UndoOf(HistoryState).state)
  /\ lastHistoryOp' = HistoryOp("undo", FALSE)
  /\ HistoryFrame

\* redo()
redo ==
  /\ SetHistory(RedoOf(HistoryState).state)
  /\ lastHistoryOp' = HistoryOp("redo", FALSE)
  /\ HistoryFrame

\* clear()
clear ==
  /\ undoStack' = <<>>
  /\ redoStack' = <<>>
  /\ currentState' = None
  /\ lastHistoryOp' = HistoryOp("clear", FALSE)
  /\ HistoryFrame

\* A pushState call with the default limit
PushState(previousState, nextState) ==
  /\ Marked \in {previousState, nextState} =>
       ~InHistory(Marked) /\ previousState # nextState
  /\ pushState(previousState, nextState, DefaultLimit)

HistoryInit == NotesInit

HistoryNext ==
  \/ \E previousState \in HistorySnapshots, nextState \in HistorySnapshots \cup {None} :
       PushState(previousState, nextState)
  \/ undo
  \/ redo
  \/ clear

SpecHistory == HistoryInit /\ [][HistoryNext]_vars

\* -------------------------------------------------- claims on the history

C19_Witness ==
  /\ lastHistoryOp = HistoryOp("pushState", TRUE)
  /\ Len(undoStack) = 50
  /\ ~InHistory(Marked)

C19_WitnessRedoFull == Len(redoStack) = 50

\* C19: after every call the undo stack and the redo stack hold at most 50
\* snapshots each; a pushState leaves the redo stack empty and the undo stack
\* with the pushed snapshot on top of what it held, less its oldest snapshot
\* if it held 50.
C19_BoundedStacks ==
  [][ /\ Len(undoStack') <= 50
      /\ Len(redoStack') <= 50
      /\ lastHistoryOp'.op = "pushState" =>
           /\ redoStack' = <<>>
           /\ Len(undoStack') >= 1
           /\ Front(undoStack') = IF Len(undoStack) < 50
                                  THEN undoStack
                                  ELSE Tail(undoStack) ]_vars


\* ======================================================= joystick velocity
\* computeJoystickVelocity on integer arguments. The numbers it computes are
\* of the form c * sqrt(n / d) with c an integer and n, d positive integers,
\* and are kept as the record [c, n, d]: the arithmetic is exact.

MaxStick == 2
MaxRadius == 2
MaxDeadzone == 1
MaxSpeed == 1

Real(c, n, d) == [c |-> c, n |-> n, d |-> d]
JoyZero == Real(0, 1, 1)

\* k * x and x / k, for an integer k (k > 0 in the division)
Times(k, x) == Real(k * x.c, x.n, x.d)
Over(x, k) == Real(x.c, x.n, x.d * k * k)

\* The square of Math.hypot(x, y), for x and y that are multiples of the same
\* square root: the fraction num / den.
HypotSquared(x, y) == [num |-> (x.c * x.c + y.c * y.c) * x.n, den |-> x.d]

\* A scale that never clamps.
NoClamp(lenSquared, radius) == Real(1, 1, 1)

\* scale = len > radius ? radius / len : 1, with len = sqrt(lenSquared)
JoystickScale(lenSquared, radius) ==
  IF lenSquared > radius * radius THEN Real(radius, 1, lenSquared) ELSE Real(1, 1, 1)

\* computeJoystickVelocity(params). params.finite tells whether
\* Math.hypot(dx, dy) is finite (it is not for a NaN or infinite dx or dy,
\* params.dx and params.dy then mean nothing).
computeJoystickVelocity(params) ==
  LET radius == Max(1, params.radiusPx)
      deadzone == Max(0, params.deadzonePx)
      lenSquared == params.dx * params.dx + params.dy * params.dy
  IN IF ~params.finite \/ lenSquared <= deadzone * deadzone
     THEN [vx |-> JoyZero, vy |-> JoyZero, clampedDx |-> JoyZero, clampedDy |-> JoyZero]
     ELSE LET scale == JoystickScale(lenSquared, radius)
              clampedDx == Times(params.dx, scale)
              clampedDy == Times(params.dy, scale)
              nx == Over(clampedDx, radius)
              ny == Over(clampedDy, radius)
          IN [vx |-> Times(params.maxSpeedPxPerSec, nx),
              vy |-> Times(params.maxSpeedPxPerSec, ny),
              clampedDx |-> clampedDx,
              clampedDy |-> clampedDy]

JoystickParams ==
  [dx : -MaxStick..MaxStick, dy : -MaxStick..MaxStick,
   radiusPx : 0..MaxRadius, deadzonePx : -MaxDeadzone..MaxDeadzone,
   maxSpeedPxPerSec : -MaxSpeed..MaxSpeed, finite : BOOLEAN]

\* The call under study, as from onPointerMove.
PointerMove(params) ==
  /\ joyInput = Null
  /\ joyInput' = Some(params)
  /\ joyResult' = Some(computeJoystickVelocity(params))
  /\ UNCHANGED <<envVars, writerVars, storeVars, syncVars, histVars, apiVars>>
  /\ UNCHANGED <<adapterVars, modeVars, historyVars>>

JoystickInit == NotesInit

JoystickNext == \E params \in JoystickParams : PointerMove(params)

SpecJoystick == JoystickInit /\ [][JoystickNext]_vars

\* ------------------------------------------------- claims on the joystick

\* All of vx, vy, clampedDx and clampedDy are zero.
AllZero(out) ==
  out.vx.c = 0 /\ out.vy.c = 0 /\ out.clampedDx.c = 0 /\ out.clampedDy.c = 0

\* The fraction q is at most the integer k.
AtMost(q, k) == q.num <= k * q.den

ClampedWithin(out, radius) ==
  AtMost(HypotSquared(out.clampedDx, out.clampedDy), radius * radius)

C20_WitnessNegativeDeadzone ==
  /\ joyResult # Null
  /\ LET p == The(joyInput)
     IN p.finite /\ p.deadzonePx < 0 /\ p.dx = 1 /\ p.dy = 0 /\ ~AllZero(The(joyResult))

FileSnapshots == {<<>>} \cup {<<f>> : f \in FileIds}

\* subscribeToFiles callback. (The migration it may start 2 s later belongs
\* to migrationManager and touches none of the state modelled here.)
FilesSnapshot(snap) ==
  /\ "files" \in unsubscribers
  /\ reqCount < MaxRequests
  /\ files' = snap
  /\ filesReady' = TRUE
  /\ remoteReady' = updateRemoteReady(notesReady, imagesReady, TRUE, settingsReady)
  /\ scheduleCacheWrite(currentUserId, CachePayload(notes, images, snap, isDarkMode))
  /\ UNCHANGED <<notes, images, isDarkMode, selectedNoteId, selectedImageId,
                 selectedFileId, currentUserId, unsubscribers, notesReady,
                 imagesReady, settingsReady>>
  /\ UNCHANGED <<envVars, syncVars>>
  /\ UNCHANGED <<apiVars, extVars>>

SelectionInit == StoreInit /\ storeImpl = "firebase"

SelectionNext ==
  \/ \E id \in Ids \cup {None} : SelectNote(id)
  \/ \E id \in ImageIds \cup {None} : SelectImage(id)
  \/ \E id \in FileIds \cup {None} : SelectFile(id)
  \/ \E snap \in ImageSnapshots : ImagesSnapshot(snap)
  \/ \E snap \in FileSnapshots : FilesSnapshot(snap)
  \/ \E e \in {d \in Events : d.type = "removed"} : DeltaEvent(e)
  \/ FlushRaf

SpecSelection == SelectionInit /\ [][SelectionNext]_vars

\* ----------------------------------------------- claims on the selection

Has(seq, x) == \E k \in DOMAIN seq : seq[k] = x

\* C23: a selected note, image or file is one the store holds.
C23_SelectionIsPresent ==
  /\ selectedNoteId # None => MapHas(notes, selectedNoteId)
  /\ selectedImageId # None => Has(images, selectedImageId)
  /\ selectedFileId # None => Has(files, selectedFileId)

\* The flush that takes the selected note out of the store's notes clears
\* selectedNoteId in the same update.
C23_NoteSelectionCleared ==
  [][(selectedNoteId # None /\ MapHas(notes, selectedNoteId)
        /\ ~MapHas(notes', selectedNoteId))
     => selectedNoteId' = None]_vars


\* ================================================ reconnect refresh (timed)
\* The reconciler with the delay of the reconnect timer tracked: a timer set
\* by the connected listener runs only once its 500 ms have passed, and a
\* reconnect inside them sets the timer anew.
ReconnectInit == NotesInit

ReconnectNext ==
  \/ \E u \in Users : InitializeFirebaseSync(u)
  \/ \E snap \in Snapshots : RefreshResolve(snap)
  \/ RefreshFail
  \/ StaleFetchResolve
  \/ StaleFetchFail
  \/ \E isConnected \in BOOLEAN : ConnectedChange(isConnected)
  \/ ReconnectDelayElapses
  \/ ReconnectTimerFireDue
  \/ CleanupFirebaseSync

SpecReconnect == ReconnectInit /\ [][ReconnectNext]_vars

\* A step in which a session starts (the initial load).
InitialLoadStep == sessions' # sessions

\* A step of the connected listener that sees the client come back online.
ReconnectDetectedStep ==
  /\ sessions' = sessions
  /\ ~wasConnected
  /\ wasConnected'

\* A step in which refreshNotesOnce starts a fetch within the session.
RefreshStartsStep ==
  /\ sessions' = sessions
  /\ ~fetchInFlight
  /\ fetchInFlight'

\* A step in which the fetch of the session settles.
RefreshSettlesStep ==
  /\ sessions' = sessions
  /\ fetchInFlight
  /\ ~fetchInFlight'

\* C25 -- Buffering starts only with a session or with the reconnect timer
\* running its callback, and in a live session it lasts exactly as long as
\* the fetch; a detected reconnect leaves one timer pending with its 500 ms
\* still to run, whatever was pending before; a refresh starts within a
\* session only from a timer whose 500 ms have passed since the last
\* reconnect, and leaves no timer pending; when the fetch settles, resolved
\* or rejected, buffering ends.
C25_BufferingTransitions ==
  [][ /\ (~isBufferingNotes /\ isBufferingNotes') =>
           \/ InitialLoadStep
           \/ TimeoutDue(reconnectTimeouts) /\ RefreshStartsStep
      /\ (notesSyncActive' /\ isBufferingNotes') => fetchInFlight'
      /\ Len(reconnectTimeouts') <= 1
      /\ ReconnectDetectedStep => reconnectTimeouts' = <<FALSE>>
      /\ (reconnectTimeouts' # <<>> /\ reconnectTimeouts = <<>>) => ReconnectDetectedStep
      /\ RefreshStartsStep =>
           /\ TimeoutDue(reconnectTimeouts)
           /\ reconnectTimeouts' = <<>>
           /\ isBufferingNotes'
      /\ RefreshSettlesStep => ~isBufferingNotes' /\ ~isRefreshingNotes' ]_vars

\* After the initial load has settled, a reconnect has been detected, its
\* timer has run and the refresh it started is in flight, the reconciler
\* buffering.
C25_Witness ==
  /\ notesSyncActive
  /\ notesReady
  /\ isBufferingNotes
  /\ fetchInFlight
  /\ reconnectTimeouts = <<>>


\* ================================================ zIndex write (timed)
\* useFirebaseCanvasStore in a settled session, with the delay of
\* __zIndexTimer tracked: the clock moves in steps of the retry delay and
\* commitZIndex runs when its timer is due.
ZIndexInit == StoreInit /\ storeImpl = "firebase"

ZIndexNext ==
  \/ \E id \in Ids \cup {None} : SelectNote(id)
  \/ \E dragging \in BOOLEAN : CommitZIndexDue(dragging)
  \/ ZIndexTick

SpecZIndex == ZIndexInit /\ [][ZIndexNext]_vars

\* A step that issues a remote write.
ZIndexWriteStep == Len(remoteCalls') > Len(remoteCalls)

\* A step of selectNote that raises a note, and so sets the timer.
ZIndexArmStep ==
  /\ nCalls' = nCalls + 1
  /\ CallMade.op = "selectNote"
  /\ CallMade.user
  /\ CallMade.id # None
  /\ MapHas(notes, CallMade.id)

\* A step in which commitZIndex finds a drag in progress.
ZIndexRetryStep ==
  /\ nCalls' = nCalls
  /\ now' = now
  /\ zIndexTimer' # zIndexTimer
  /\ zIndexTimer' # Null

\* What a debounced zIndex write asks of a step: at most one timer is
\* pending; a selectNote that raises a note writes nothing and leaves one
\* timer, due 1 s later, for that note and its new zIndex, whatever was
\* pending; a write is issued only by a due timer, 1 s after the last such
\* selectNote plus a whole number of 250 ms retries, it is the write of that
\* last call, and it leaves no timer pending; a commitZIndex that finds a
\* drag in progress issues no write and is due again 250 ms later.
DebouncedZIndexStep ==
  /\ Cardinality(zIndexTimer') <= 1
  /\ ZIndexArmStep =>
       /\ zIndexTimer' # Null
       /\ \A t \in zIndexTimer' :
            /\ t.id = CallMade.id
            /\ t.zIndex = OrZero(MapGet(notes', t.id).zIndex)
            /\ t.at = now + ZINDEX_DEBOUNCE_MS
            /\ t.since = now
       /\ remoteCalls' = remoteCalls
  /\ ZIndexWriteStep =>
       /\ zIndexTimer # Null
       /\ zIndexTimer' = Null
       /\ LET t == The(zIndexTimer)
          IN /\ now = t.at
             /\ now >= t.since + ZINDEX_DEBOUNCE_MS
             /\ (now - t.since - ZINDEX_DEBOUNCE_MS) % ZINDEX_RETRY_MS = 0
             /\ remoteCalls' = Append(remoteCalls,
                                      [op |-> "updateNote", id |-> t.id,
                                       zIndex |-> t.zIndex])
  /\ ZIndexRetryStep =>
       /\ remoteCalls' = remoteCalls
       /\ zIndexTimer # Null
       /\ zIndexTimer' =
            Some([The(zIndexTimer) EXCEPT !.at = now + ZINDEX_RETRY_MS])

\* C28 -- The remote zIndex write caused by selectNote is debounced: a burst
\* of selectNote calls less than 1 s apart issues one write, 1 s after the
\* last call, and none is issued while a drag is in progress, the timer
\* being set again for 250 ms later.
C28_DebouncedZIndexWrite == [][DebouncedZIndexStep]_vars

\* Note n1, then note n2 were selected less than 1 s apart, and one write
\* has been issued: that of n2, the note selected last.
C28_Witness ==
  /\ storeImpl = "firebase"
  /\ MapHas(notes, "n1")
  /\ MapHas(notes, "n2")
  /\ ZIndexOf("n1") >= 3
  /\ ZIndexOf("n2") > ZIndexOf("n1")
  /\ zIndexTimer = Null
  /\ remoteCalls = <<[op |-> "updateNote", id |-> "n2", zIndex |-> ZIndexOf("n2")]>>
  /\ now < StartTime + 2 * ZINDEX_DEBOUNCE_MS

\* A commitZIndex has found a drag in progress: its timer is pending again,
\* later than 1 s after the selectNote that set it, and nothing was written.
C28_WitnessDrag ==
  /\ zIndexTimer # Null
  /\ The(zIndexTimer).at > The(zIndexTimer).since + ZINDEX_DEBOUNCE_MS
  /\ remoteCalls = <<>>


\* ============================================= persistent cache round trip

\* A Date and its getTime().
NewDate(ms) == [time |-> ms]
getTime(d) == d.time

\* The entities of a payload, with every field the code treats differently
\* on the way to the cache and back: content stands for the fields copied one
\* by one, the optional fields are Null (undefined) or Some(value).
CacheNote(id, important) ==
  [id |-> id, content |-> "a", zIndex |-> Some(1), isImportant |-> important,
   createdAt |-> NewDate(1)]
CacheImage(id) == [id |-> id, url |-> "u", createdAt |-> NewDate(1)]
CacheFile(id, drawing) ==
  [id |-> id, url |-> "u", isDrawingMode |-> drawing, createdAt |-> NewDate(1)]

OptionalFlag == {Null, Some(TRUE)}
CacheNotes == {CacheNote(id, imp) : id \in Ids, imp \in OptionalFlag}
CacheNoteLists ==
  {<<>>} \cup {<<n>> : n \in CacheNotes}
    \cup {<<p[1], p[2]>> : p \in {q \in CacheNotes \X CacheNotes : q[1].id # q[2].id}}
CacheImageLists == {<<>>} \cup {<<CacheImage(i)>> : i \in ImageIds}
CacheFileLists ==
  {<<>>} \cup {<<CacheFile(f, d)>> : f \in FileIds, d \in OptionalFlag}
CachePayloads ==
  [notes : CacheNoteLists, images : CacheImageLists, files : CacheFileLists,
   isDarkMode : BOOLEAN]

\* The rows saveAllUserData puts for the notes, images and files of a payload.
SerializeNote(userId, note) ==
  [id |-> note.id, content |-> note.content, zIndex |-> note.zIndex,
   createdAt |-> getTime(note.createdAt), userId |-> userId]
SerializeImage(userId, image) ==
  [id |-> image.id, url |-> image.url, createdAt |-> getTime(image.createdAt),
   userId |-> userId]
SerializeFile(userId, file) ==
  [id |-> file.id, url |-> file.url, createdAt |-> getTime(file.createdAt),
   userId |-> userId]

\* getNotes, getImages, getFiles: the entity built from a row. A field the
\* row does not carry is undefined in the entity.
DeserializeNote(row) ==
  [id |-> row.id, content |-> row.content, zIndex |-> row.zIndex,
   isImportant |-> Null,
   createdAt |-> NewDate(row.createdAt)]
DeserializeImage(row) ==
  [id |-> row.id, url |-> row.url, createdAt |-> NewDate(row.createdAt)]
DeserializeFile(row) ==
  [id |-> row.id, url |-> row.url, isDrawingMode |-> Null,
   createdAt |-> NewDate(row.createdAt)]

\* An object store keyed by id after the rows of the user were deleted and
\* the rows of the list put in order: a later row replaces an earlier one of
\* the same id.
PutAll(rows) ==
  {rows[k] : k \in {j \in DOMAIN rows :
                      \A l \in DOMAIN rows : l > j => rows[l].id # rows[j].id}}

\* index.getAll(userId): the rows of the user in the order of their keys.
KeyOrder == <<"f1", "i1", "n1", "n2">>
getAll(rows) ==
  LET present == SelectSeq(KeyOrder, LAMBDA i : \E r \in rows : r.id = i)
  IN [k \in DOMAIN present |-> CHOOSE r \in rows : r.id = present[k]]

\* saveAllUserData(userId, { notes, images, files, settings }): what the
\* object stores hold for the user once the transaction completes.
saveAllUserData(userId, data) ==
  [notes |-> PutAll([k \in DOMAIN data.notes |-> SerializeNote(userId, data.notes[k])]),
   images |-> PutAll([k \in DOMAIN data.images |-> SerializeImage(userId, data.images[k])]),
   files |-> PutAll([k \in DOMAIN data.files |-> SerializeFile(userId, data.files[k])]),
   isDarkMode |-> data.isDarkMode]

\* getAllUserData(userId)
getAllUserData(stored) ==
  LET ns == getAll(stored.notes)
      is == getAll(stored.images)
      fs == getAll(stored.files)
  IN [notes |-> [k \in DOMAIN ns |-> DeserializeNote(ns[k])],
      images |-> [k \in DOMAIN is |-> DeserializeImage(is[k])],
      files |-> [k \in DOMAIN fs |-> DeserializeFile(fs[k])],
      isDarkMode |-> stored.isDarkMode]

\* list.slice(0, n)
Slice(list, n) == SubSeq(list, 1, IF Len(list) < n THEN Len(list) ELSE n)

\* { ...entity, createdAt: entity.createdAt.getTime() } and back.
ToJson(entity) == [entity EXCEPT !.createdAt = getTime(@)]
FromJson(json) == [json EXCEPT !.createdAt = NewDate(@)]

\* The value `run` stores under remoteCache:<userId>, and what loadCache
\* makes of it.
LsCacheOf(payload) ==
  LET ns == Slice(payload.notes, LS_MAX_NOTES)
      is == Slice(payload.images, LS_MAX_IMAGES)
      fs == Slice(payload.files, LS_MAX_FILES)
  IN [notes |-> [k \in DOMAIN ns |-> ToJson(ns[k])],
      images |-> [k \in DOMAIN is |-> ToJson(is[k])],
      files |-> [k \in DOMAIN fs |-> ToJson(fs[k])],
      isDarkMode |-> payload.isDarkMode]
LsCacheParsed(cache) ==
  [notes |-> [k \in DOMAIN cache.notes |-> FromJson(cache.notes[k])],
   images |-> [k \in DOMAIN cache.images |-> FromJson(cache.images[k])],
   files |-> [k \in DOMAIN cache.files |-> FromJson(cache.files[k])],
   isDarkMode |-> cache.isDarkMode]

\* `run` with a payload of whole entities; idb is
\* indexedDBManager.isAvailable(), the same at every call.
RunWithEntities(payload, idb) ==
  /\ cacheLoadPending = {}
  /\ notesReady
  /\ reqCount < MaxRequests
  /\ IF cacheWrites = <<>> THEN TRUE ELSE cacheWrites[1].idb = idb
  /\ reqCount' = reqCount + 1
  /\ lastCacheWriteAt' = now
  /\ idbData' = IF idb
                THEN [idbData EXCEPT !["u1"] = Some(saveAllUserData("u1", payload))]
                ELSE idbData
  /\ lsRemoteCache' = [lsRemoteCache EXCEPT !["u1"] = Some(LsCacheOf(payload))]
  /\ cacheWrites' = <<[payload |-> payload, idb |-> idb]>>
  /\ UNCHANGED <<cacheWriteTimer, pendingCacheWrite, idleRuns>>
  /\ UNCHANGED <<lastReqAt, windows, tornDown, lastTeardown>>
  /\ UNCHANGED <<envVars, storeVars, syncVars>>
  /\ UNCHANGED <<apiVars, extVars>>

\* A cold start: the page is loaded anew, the store is in its initial state
\* and initializeFirebaseSync has started loadCache().
ColdStart ==
  /\ cacheLoadPending = {}
  /\ notesReady
  /\ cacheWrites # <<>>
  /\ cacheLoadPending' = {"u1"}
  /\ notes' = <<>> /\ images' = <<>> /\ files' = <<>> /\ isDarkMode' = FALSE
  /\ notesReady' = FALSE /\ imagesReady' = FALSE /\ filesReady' = FALSE
  /\ settingsReady' = FALSE /\ remoteReady' = FALSE
  /\ UNCHANGED <<selectedNoteId, selectedImageId, selectedFileId, currentUserId,
                 unsubscribers>>
  /\ UNCHANGED <<notesById, notesFlushRaf, pendingFrames, notesSyncActive,
                 isBufferingNotes, isRefreshingNotes, bufferedNotesEvents,
                 fetchInFlight, staleFetches, wasConnected, reconnectTimer,
                 reconnectTimeouts, sessions, lastDelivered, lastNonAdded,
                 lastRefresh, lastDelta>>
  /\ UNCHANGED <<envVars, writerVars, histVars>>
  /\ UNCHANGED <<apiVars, extVars>>

\* loadCache() settles on whole entities: the IndexedDB tier if it is
\* available and holds anything, the localStorage tier otherwise.
LoadCacheReads ==
  /\ "u1" \in cacheLoadPending
  /\ cacheLoadPending' = {}
  /\ LET idb == IF cacheWrites[1].idb /\ idbData["u1"] # Null
                THEN Some(getAllUserData(The(idbData["u1"])))
                ELSE Null
         useIdb == /\ idb # Null
                   /\ \/ Len(The(idb).notes) > 0
                      \/ Len(The(idb).images) > 0
                      \/ Len(The(idb).files) > 0
         ls == lsRemoteCache["u1"]
     IN IF useIdb \/ ls # Null
        THEN LET c == IF useIdb THEN The(idb) ELSE LsCacheParsed(The(ls))
             IN /\ notes' = c.notes
                /\ images' = c.images
                /\ files' = c.files
                /\ isDarkMode' = c.isDarkMode
        ELSE UNCHANGED <<notes, images, files, isDarkMode>>
  /\ UNCHANGED <<selectedNoteId, selectedImageId, selectedFileId, currentUserId,
                 unsubscribers, notesReady, imagesReady, filesReady, settingsReady,
                 remoteReady>>
  /\ UNCHANGED <<notesById, notesFlushRaf, pendingFrames, notesSyncActive,
                 isBufferingNotes, isRefreshingNotes, bufferedNotesEvents,
                 fetchInFlight, staleFetches, wasConnected, reconnectTimer,
                 reconnectTimeouts, sessions, lastDelivered, lastNonAdded,
                 lastRefresh, lastDelta>>
  /\ UNCHANGED <<envVars, writerVars, histVars>>
  /\ UNCHANGED <<apiVars, extVars>>

\* A session of user u1 in which cache writes happen, then a cold start.
CacheInit == WriterInit /\ hasRequestIdle
CacheNext ==
  \/ \E payload \in CachePayloads, idb \in BOOLEAN : RunWithEntities(payload, idb)
  \/ ColdStart
  \/ LoadCacheReads
SpecCache == CacheInit /\ [][CacheNext]_vars

\* The cold start has read the cache.
LoadedFromCache == cacheWrites # <<>> /\ ~notesReady /\ cacheLoadPending = {}
LastWritten == cacheWrites[1].payload

\* C31 -- Cache round trip: once the cold start after a cache write has
\* loaded the cache of the same user, the store's notes, images and files
\* equal, field for field, those of the payload last written.
C31_CacheRoundTrip ==
  LoadedFromCache =>
    /\ notes = LastWritten.notes
    /\ images = LastWritten.images
    /\ files = LastWritten.files

\* What the round trip keeps: the entities come back one per id of the
\* payload, with every field that saveAllUserData copies.
C31_SerializedFieldsKept ==
  LoadedFromCache =>
    /\ {SerializeNote("u1", notes[k]) : k \in DOMAIN notes}
         = {SerializeNote("u1", LastWritten.notes[k]) : k \in DOMAIN LastWritten.notes}
    /\ Len(notes) = Len(LastWritten.notes)
    /\ images = LastWritten.images
    /\ {SerializeFile("u1", files[k]) : k \in DOMAIN files}
         = {SerializeFile("u1", LastWritten.files[k]) : k \in DOMAIN LastWritten.files}
    /\ Len(files) = Len(LastWritten.files)

\* A payload of two notes, an image and a file, written after another one,
\* has been read back from the IndexedDB tier.
C31_Witness ==
  /\ LoadedFromCache
  /\ cacheWrites[1].idb
  /\ reqCount = 2
  /\ Len(LastWritten.notes) = 2
  /\ Len(notes) = 2
  /\ images # <<>>
  /\ files # <<>>


\* ================================================ addNote and the listener

\* The FirebaseNote of a local note, without its id.
LocalToWire(note) ==
  [content |-> note.content, x |-> note.x, color |-> note.color,
   zIndex |-> note.zIndex, createdAt |-> note.createdAt,
   updatedAt |-> note.updatedAt]

\* addNote(x, y) of useFirebaseCanvasStore, up to the promise of
\* saveNoteToFirebase: the note takes the key the remote hands out and
\* zIndex maxZIndex + 1 as of the call; threw tells whether the save rejects.
AddNoteRemote(threw) ==
  /\ storeImpl = "firebase"
  /\ CallerUserId # NoUser
  /\ nOps < MaxOps
  /\ Ids \ issuedIds # {}
  /\ LET id == FreshId(Ids)
         newNote == [StoredNote(id, maxZIndex(notes) + 1)
                       EXCEPT !.createdAt = now, !.updatedAt = now]
     IN /\ issuedIds' = issuedIds \cup {id}
        /\ microtasks' = Append(microtasks,
                                Microtask("addNote", id, Some(newNote), threw))
  /\ nOps' = nOps + 1
  /\ opLog' = <<>>
  /\ UNCHANGED <<notes, images, files, isDarkMode, selectedNoteId, selectedImageId,
                 selectedFileId, remoteCalls, lsData, toasts, fbCache, unhandled,
                 failedImages>>
  /\ ActionsFrame

\* The 'added' events the delta listener can deliver for the notes addNote
\* has saved: of a save still pending, or of a note the store has appended,
\* as long as the reconciler map does not hold the note.
SavedNoteEvents ==
  {[type |-> "added", id |-> microtasks[k].id,
    note |-> LocalToWire(The(microtasks[k].note))] :
     k \in {j \in DOMAIN microtasks :
              /\ microtasks[j].op = "addNote"
              /\ ~microtasks[j].threw
              /\ ~MapHas(notesById, microtasks[j].id)}}
  \cup
  {[type |-> "added", id |-> notes[k].id, note |-> LocalToWire(notes[k])] :
     k \in {j \in DOMAIN notes : ~MapHas(notesById, notes[j].id)}}

\* useFirebaseCanvasStore in a settled session: addNote calls, their
\* continuations, the delta events of the notes saved, flushes and
\* selectNote calls.
\* subscribeToNotesDelta callback, for a note addNote has saved
SavedNoteDelta == \E e \in SavedNoteEvents : DeltaEvent(e)

AddNoteInit == ActionsInit /\ storeImpl = "firebase"
AddNoteNext ==
  \/ \E threw \in BOOLEAN : AddNoteRemote(threw)
  \/ RunMicrotask
  \/ SavedNoteDelta
  \/ FlushRaf
  \/ \E id \in Ids : SelectNote(id)
SpecAddNote == AddNoteInit /\ [][AddNoteNext]_vars

\* C32 -- In every reachable state of a store no two entries of the notes
\* list share the same id, whatever the interleaving of addNote with the
\* remote delta events and flushes that carry the same note.
C32_UniqueNoteIds ==
  \A j, k \in DOMAIN notes : notes[j].id = notes[k].id => j = k

\* The reconciler map, and so every list a flush publishes, has one entry
\* per id.
C32_UniqueInMap ==
  \A j, k \in DOMAIN notesById : notesById[j].id = notesById[k].id => j = k

\* A note saved by addNote has reached the list both ways, by its
\* continuation and by a delta event, and a flush has published the map.
C32_Witness ==
  /\ issuedIds # {}
  /\ microtasks = <<>>
  /\ \E k \in DOMAIN notes : MapHas(notesById, notes[k].id) /\ notes[k].createdAt = now
  /\ reqCount = 1


\* ============================================== cache load and remote data

\* What an earlier run left in the IndexedDB tier for user u1: note n2, an
\* image and dark mode.
EarlierPayload ==
  CachePayload(<<firebaseNoteToLocal("n2", WireAB)>>, <<"i1">>, <<>>, TRUE)

\* The sessions of a user whose cache holds data: the session starts, its
\* cache load and its notes refresh settle in either order, delta events and
\* images snapshots arrive, flushes run, and the session is torn down or
\* replaced.
CacheLoadInit == SessionInit([u \in Users |-> Some(EarlierPayload)])
CacheLoadNext ==
  \/ \E u \in Users : InitializeFirebaseSync(u)
  \/ \E u \in Users : LoadCacheSettles(u)
  \/ \E e \in Events : DeltaEvent(e)
  \/ \E snap \in Snapshots : RefreshResolve(snap)
  \/ RefreshFail
  \/ StaleFetchResolve
  \/ StaleFetchFail
  \/ \E snap \in ImageSnapshots : ImagesSnapshot(snap)
  \/ FlushRaf
  \/ CleanupFirebaseSync
SpecCacheLoad == CacheLoadInit /\ [][CacheLoadNext]_vars

\* loadCache() settles in this step.
CacheLoadSettlesStep ==
  cacheLoadPending # {} /\ cacheLoadPending' = {}

\* Remote data of the session has been applied to the store.
RemoteDataApplied == notesReady \/ imagesReady \/ filesReady

\* C33 -- The cached snapshot is applied only before the first remote data of
\* the session: a cache load that settles once the notes refresh or an images
\* or files snapshot has been applied leaves notes, images and files alone,
\* and once notesReady is true the notes change only by a refresh or flush
\* that publishes the reconciler map.
C33_CacheBeforeRemote ==
  [][/\ (CacheLoadSettlesStep /\ RemoteDataApplied) =>
          UNCHANGED <<notes, images, files>>
     /\ (notesReady /\ notesReady' /\ notes' # notes) => notes' = notesById']_vars

\* The part of C33 that does not depend on loadCache: with notesReady true a
\* step other than a settling cache load changes the notes only by
\* publishing the reconciler map.
C33_OnlyFlushPublishes ==
  [][(notesReady /\ notesReady' /\ notes' # notes /\ ~CacheLoadSettlesStep)
       => notes' = notesById']_vars

\* The cache load has settled before any remote data: the store shows the
\* cached note while the refresh is still in flight.
C33_Witness ==
  /\ cacheLoadPending = {}
  /\ sessions = 1
  /\ fetchInFlight
  /\ ~RemoteDataApplied
  /\ notes = EarlierPayload.notes
  /\ images = EarlierPayload.images


\* No session is attached before or after this step: whatever runs is a
\* continuation of a session torn down.
NoSessionStep == sessions > 0 /\ unsubscribers = {} /\ unsubscribers' = {}

\* The fetch of a session since replaced settles in this step.
StaleFetchSettlesStep == staleFetches' < staleFetches

\* C34 -- After cleanupFirebaseSync(), or after a later
\* initializeFirebaseSync, no asynchronous continuation of the torn-down
\* session (its snapshot refresh succeeding or failing, its cache load, a
\* scheduled flush) changes the store's notes, images, files, notesReady or
\* remoteReady.
C34_TornDownSessionSilent ==
  [][(NoSessionStep \/ StaleFetchSettlesStep) =>
       UNCHANGED <<notes, images, files, notesReady, remoteReady>>]_vars

\* A session was torn down with its cache load pending, and the load has
\* settled since.
C34_Witness ==
  /\ sessions = 1
  /\ unsubscribers = {}
  /\ cacheLoadPending = {}
  /\ notes = EarlierPayload.notes


\* ------------------------------------------- zIndex timer and the teardown

\* The zIndex timer t runs in this step and issues its remote write.
ZIndexTimerWrites(t) ==
  /\ t \notin zIndexTimer'
  /\ Len(remoteCalls') = Len(remoteCalls) + 1

\* C35: a zIndex timer set by selectNote inside a session issues its remote
\* write only while that session is still the current one: once
\* cleanupFirebaseSync has returned, no timer set before it writes under the
\* user id of the session torn down.
C35_NoWriteAfterTeardown ==
  [][\A t \in zIndexTimer :
       (ZIndexTimerWrites(t) /\ t.session # NoUser) => currentUserId = t.session]_vars

\* A timer set during the session of u1 is pending after the teardown and the
\* sign-out.
C35_Witness ==
  /\ storeImpl = "firebase"
  /\ currentUserId = NoUser
  /\ authUid = NoUser
  /\ \E t \in zIndexTimer : t.session = "u1" /\ t.userId = "u1"


\* ------------------------------------------- zIndex writes, eventually
\* The last instant of the clock of the zIndex specifications.
ZClockEnd == StartTime + MaxZTicks * ZINDEX_RETRY_MS

\* selectNote, called early enough for its timer to come due on the clock.
SelectNoteInTime(id) ==
  /\ now + ZINDEX_DEBOUNCE_MS <= ZClockEnd
  /\ SelectNote(id)

\* commitZIndex; a drag ends early enough for the retry to come due on the
\* clock.
CommitZIndexInTime(dragging) ==
  /\ dragging => now + ZINDEX_RETRY_MS <= ZClockEnd
  /\ CommitZIndexDue(dragging)

ZIndexLiveNext ==
  \/ \E id \in Ids \cup {None} : SelectNoteInTime(id)
  \/ \E dragging \in BOOLEAN : CommitZIndexInTime(dragging)
  \/ ZIndexTick

\* Timers fire and time passes: the clock moves on while no timer is due, and
\* a due timer runs; with no drag in progress it issues its write.
SpecZIndexLive ==
  /\ ZIndexInit
  /\ [][ZIndexLiveNext]_vars
  /\ WF_vars(ZIndexTick)
  /\ WF_vars(CommitZIndexInTime(FALSE))

\* The zIndex of the note in the store is not the one the remote store sent.
BumpedLocally(id) ==
  /\ MapHas(notes, id)
  /\ ZIndexOf(id) # OrZero(MapGet(notesById, id).zIndex)

\* The remote store was sent the zIndex the note has in the store.
ZIndexWritten(id) ==
  \E k \in 1..Len(remoteCalls) :
    /\ remoteCalls[k].op = "updateNote"
    /\ remoteCalls[k].id = id
    /\ remoteCalls[k].zIndex = ZIndexOf(id)

\* C36: every zIndex selectNote gives a note in the store is eventually
\* written to the remote store, also that of a note selected before another
\* one inside the debounce window.
C36_EveryBumpWritten ==
  \A id \in Ids : BumpedLocally(id) ~> ZIndexWritten(id)

\* A pending zIndex timer eventually runs and issues its write or is replaced.
C36_PendingTimerSettles == (zIndexTimer # Null) ~> (zIndexTimer = Null)

\* Two notes were raised one after the other and the write of the second was
\* issued, with no timer left.
C36_Witness ==
  /\ zIndexTimer = Null
  /\ BumpedLocally("n1")
  /\ BumpedLocally("n2")
  /\ ZIndexWritten("n1") # ZIndexWritten("n2")


\* ==================================================== unified remote store

\* The StorageAdapter objects of useUnifiedFirebaseStore: the object literal
\* createCanvasStoreCore is given, and the FirebaseStorageAdapter of a user.
PlaceholderAdapter == [kind |-> "placeholder", userId |-> NoUser]
FirebaseAdapterOf(userId) == [kind |-> "firebase", userId |-> userId]

\* let firebaseAdapter: the adapter initializeFirebaseSync has created and
\* subscribed, null before it and after cleanupFirebaseSync.
firebaseAdapter ==
  IF unsubscribers = {} THEN Null ELSE Some(FirebaseAdapterOf(currentUserId))

\* The adapter the actions of the base store call: the one
\* createCanvasStoreCore closed over.
BaseStoreAdapter == PlaceholderAdapter

\* adapter.saveNote(note): the id it resolves to; fresh is the key the remote
\* hands out.
SaveNoteOn(adapter, fresh) == IF adapter.kind = "placeholder" THEN "" ELSE fresh

\* The calls of the remote API a method of the adapter makes.
RemoteCallsOf(adapter, op, id) ==
  IF adapter.kind = "placeholder" THEN <<>>
  ELSE <<[op |-> op, id |-> id, userId |-> adapter.userId, caught |-> TRUE]>>

\* The listeners subscribeToChanges registers.
UnifiedListeners == {"notesSync", "images", "files", "settings"}

\* What a store action of the unified store leaves alone.
UnifiedCallFrame ==
  /\ nOps' = nOps + 1
  /\ opLog' = <<>>
  /\ UNCHANGED <<images, files, isDarkMode, lsData, toasts, fbCache, unhandled,
                 failedImages>>
  /\ ActionsFrame

\* addNote(x, y) of the unified store, up to its await
UnifiedAddNote ==
  /\ storeImpl = "unified"
  /\ nOps < MaxOps
  /\ BaseStoreAdapter.kind = "placeholder" \/ Ids \ issuedIds # {}
  /\ LET id == SaveNoteOn(BaseStoreAdapter, FreshId(Ids))
         newNote == [StoredNote(id, maxZIndex(notes) + 1)
                       EXCEPT !.createdAt = now, !.updatedAt = now]
     IN /\ issuedIds' = issuedIds \cup {id}
        /\ microtasks' = Append(microtasks,
                                Microtask("addNote", id, Some(newNote), FALSE))
        /\ remoteCalls' = remoteCalls \o RemoteCallsOf(BaseStoreAdapter, "saveNote", id)
  /\ UNCHANGED <<notes, selectedNoteId, selectedImageId, selectedFileId>>
  /\ UnifiedCallFrame

\* updateNote(id, { content }) of the unified store
UnifiedUpdateNote(id, content) ==
  /\ storeImpl = "unified"
  /\ nOps < MaxOps
  /\ notes' = OptimisticUpdate(notes, id, content, now)
  /\ remoteCalls' = remoteCalls \o RemoteCallsOf(BaseStoreAdapter, "updateNote", id)
  /\ UNCHANGED <<selectedNoteId, selectedImageId, selectedFileId, microtasks,
                 issuedIds>>
  /\ UnifiedCallFrame

\* deleteNote(id) of the unified store
UnifiedDeleteNote(id) ==
  /\ storeImpl = "unified"
  /\ nOps < MaxOps
  /\ notes' = MapDelete(notes, id)
  /\ selectedNoteId' = IF selectedNoteId = id THEN None ELSE selectedNoteId
  /\ remoteCalls' = remoteCalls \o RemoteCallsOf(BaseStoreAdapter, "deleteNote", id)
  /\ UNCHANGED <<selectedImageId, selectedFileId, microtasks, issuedIds>>
  /\ UnifiedCallFrame

\* What initializeFirebaseSync and cleanupFirebaseSync of the unified store
\* leave alone.
UnifiedSessionFrame ==
  /\ UNCHANGED <<selectedNoteId, selectedImageId, selectedFileId>>
  /\ UNCHANGED <<authUid, storeImpl, zIndexTimer, remoteCalls, callLog, nCalls>>
  /\ UNCHANGED <<adapterVars, modeVars, sideVars>>
  /\ UNCHANGED <<envVars, writerVars, histVars>>
  /\ UNCHANGED <<notesById, notesFlushRaf, pendingFrames, notesSyncActive,
                 isBufferingNotes, isRefreshingNotes, bufferedNotesEvents,
                 fetchInFlight, staleFetches, wasConnected, reconnectTimer,
                 reconnectTimeouts, cacheLoadPending, lastDelivered, lastNonAdded,
                 lastRefresh, lastDelta>>

\* initializeFirebaseSync(userId) of the unified store: a new
\* FirebaseStorageAdapter, the flags reset, the localStorage cache read and
\* the listeners subscribed.
UnifiedInitializeFirebaseSync(userId) ==
  /\ storeImpl = "unified"
  /\ sessions < MaxSessions
  /\ sessions' = sessions + 1
  /\ currentUserId' = userId
  /\ notesReady' = FALSE /\ imagesReady' = FALSE /\ filesReady' = FALSE
  /\ settingsReady' = FALSE /\ remoteReady' = FALSE
  /\ IF lsRemoteCache[userId] = Null
     THEN UNCHANGED <<notes, images, files, isDarkMode>>
     ELSE LET parsed == LsCacheParsed(The(lsRemoteCache[userId]))
          IN /\ notes' = parsed.notes
             /\ images' = parsed.images
             /\ files' = parsed.files
             /\ isDarkMode' = parsed.isDarkMode
  /\ unsubscribers' = UnifiedListeners
  /\ UnifiedSessionFrame

\* cleanupFirebaseSync() of the unified store
UnifiedCleanupFirebaseSync ==
  /\ storeImpl = "unified"
  /\ unsubscribers' = {}
  /\ currentUserId' = NoUser
  /\ notesReady' = FALSE /\ imagesReady' = FALSE /\ filesReady' = FALSE
  /\ settingsReady' = FALSE /\ remoteReady' = FALSE
  /\ UNCHANGED <<notes, images, files, isDarkMode, sessions>>
  /\ UnifiedSessionFrame

\* The unified store in a session of user u1 whose listeners have delivered
\* the notes of the remote store.
UnifiedInit ==
  /\ storeImpl = "unified"
  /\ notes \in InitialNotes
  /\ lsData = Null
  /\ fbCache = notes
  /\ issuedIds = {notes[k].id : k \in DOMAIN notes}
  /\ toasts = 0
  /\ microtasks = <<>>
  /\ unhandled = 0
  /\ failedImages = {}
  /\ opLog = <<>>
  /\ nOps = 0
  /\ notesById = <<>>
  /\ images = <<>> /\ files = <<>> /\ isDarkMode = FALSE
  /\ selectedNoteId = None /\ selectedImageId = None /\ selectedFileId = None
  /\ currentUserId = "u1"
  /\ authUid = "u1"
  /\ unsubscribers = UnifiedListeners
  /\ notesReady = TRUE
  /\ imagesReady = TRUE
  /\ filesReady = TRUE
  /\ settingsReady = TRUE
  /\ remoteReady = TRUE
  /\ notesSyncActive = FALSE
  /\ sessions = 1
  /\ now = StartTime
  /\ hidden = FALSE
  /\ hasRequestIdle = TRUE
  /\ cacheWriteTimer = NoTimer
  /\ pendingCacheWrite = Null
  /\ lastCacheWriteAt = 0
  /\ idleRuns = <<>>
  /\ idbData = [u \in Users |-> Null]
  /\ lsRemoteCache = [u \in Users |-> Null]
  /\ notesFlushRaf = FALSE
  /\ pendingFrames = 0
  /\ isBufferingNotes = FALSE
  /\ isRefreshingNotes = FALSE
  /\ bufferedNotesEvents = <<>>
  /\ fetchInFlight = FALSE
  /\ staleFetches = 0
  /\ wasConnected = TRUE
  /\ reconnectTimer = FALSE
  /\ reconnectTimeouts = <<>>
  /\ cacheLoadPending = {}
  /\ lastDelivered = NoEvents
  /\ lastNonAdded = NoEvents
  /\ lastRefresh = Null
  /\ lastDelta = Null
  /\ zIndexTimer = Null
  /\ remoteCalls = <<>>
  /\ callLog = <<>>
  /\ nCalls = 0
  /\ reqCount = 0
  /\ lastReqAt = 0
  /\ windows = UntrackedWindows
  /\ cacheWrites = <<>>
  /\ tornDown = FALSE
  /\ lastTeardown = {}
  /\ ModeIdle
  /\ SideIdle
UnifiedNext ==
  \/ UnifiedAddNote
  \/ RunMicrotask
  \/ \E id \in Ids, content \in {"a", "ab"} : UnifiedUpdateNote(id, content)
  \/ \E id \in Ids : UnifiedDeleteNote(id)
  \/ \E userId \in Users : UnifiedInitializeFirebaseSync(userId)
  \/ UnifiedCleanupFirebaseSync

SpecUnified == UnifiedInit /\ [][UnifiedNext]_vars

\* A step that is a call of addNote, updateNote or deleteNote.
UnifiedCrudStep == nOps' = nOps + 1

\* The step issues one call of the remote API, in the namespace of the user.
RemoteWriteIn(userId) ==
  /\ Len(remoteCalls') = Len(remoteCalls) + 1
  /\ remoteCalls'[Len(remoteCalls')].userId = userId

\* C37 -- In the unified store, once initializeFirebaseSync(userId) has run,
\* every call of addNote, updateNote or deleteNote calls the operation of
\* the FirebaseStorageAdapter created for userId, and so issues a remote
\* write in that namespace.
C37_CrudReachesFirebaseAdapter ==
  [][(UnifiedCrudStep /\ firebaseAdapter # Null)
       => RemoteWriteIn(The(firebaseAdapter).userId)]_vars

\* C37, second half: every note addNote has added has a non-empty id.
C37_AddedIdsNonEmpty == \A k \in DOMAIN notes : notes[k].id # ""

\* addNote ran to its end in a session of u1.
C37_Witness ==
  /\ storeImpl = "unified"
  /\ currentUserId = "u1"
  /\ nOps > 0
  /\ microtasks = <<>>
  /\ Len(notes) = 3


\* ====================================================== history round trip

\* A step that is a call of undo / of redo.
UndoStep == lastHistoryOp'.op = "undo"
RedoStep == lastHistoryOp'.op = "redo"

\* C38 -- History round trip: an undo() made with a current state and a
\* non-empty undo stack leaves a history from which redo() gives back the
\* current state, the undo stack and the redo stack of before the undo;
\* undo() on an empty undo stack and redo() on an empty redo stack return
\* null and leave all three as they are.
C38_UndoRedoRoundTrip ==
  [][/\ (UndoStep /\ currentState # None /\ undoStack # <<>>)
          => RedoOf(HistoryState').state = HistoryState
     /\ (UndoStep /\ undoStack = <<>>)
          => UndoOf(HistoryState).returned = None /\ HistoryState' = HistoryState
     /\ (RedoStep /\ redoStack = <<>>)
          => RedoOf(HistoryState).returned = None /\ HistoryState' = HistoryState]_vars

\* undo() was called with a current state, more than one snapshot to undo
\* and snapshots to redo.
C38_Witness ==
  /\ lastHistoryOp.op = "undo"
  /\ Len(undoStack) >= 1
  /\ Len(redoStack) >= 2
  /\ currentState # None

\* undo() was called on an empty undo stack.
C38_WitnessEmpty ==
  /\ lastHistoryOp.op = "undo"
  /\ undoStack = <<>>
  /\ redoStack = <<>>


\* ================================================ addNote and the zIndex

\* The continuation of an addNote whose save has resolved runs in this step
\* and appends the note.
AddNoteSettlesStep ==
  /\ microtasks # <<>>
  /\ microtasks' = Tail(microtasks)
  /\ microtasks[1].op = "addNote"
  /\ ~microtasks[1].threw
  /\ Len(notes') = Len(notes) + 1

\* C39 -- When addNote settles, the note it inserts has a zIndex strictly
\* above that of every note the store holds at that moment, whatever addNote
\* or selectNote calls ran while its save was pending.
C39_InsertedOnTop ==
  [][AddNoteSettlesStep =>
       \A k \in DOMAIN notes :
         notes[k].id # microtasks[1].id =>
           OrZero(notes[k].zIndex) < OrZero(notes'[Len(notes')].zIndex)]_vars

\* The note addNote inserts has the zIndex maxZIndex + 1 as of the call.
C39_ZIndexAsOfCall ==
  [][AddNoteSettlesStep =>
       /\ notes'[Len(notes')] = The(microtasks[1].note)
       /\ OrZero(notes'[Len(notes')].zIndex) >= 1]_vars

\* addNote has inserted a note above a note the store held.
C39_Witness ==
  /\ storeImpl = "firebase"
  /\ microtasks = <<>>
  /\ Len(notes) = 2
  /\ OrZero(notes[2].zIndex) > OrZero(notes[1].zIndex)
  /\ nOps > 0


\* ================================================ reconnect, eventually

\* fetchNotesOnce of the live session settles.
FetchSettles ==
  \/ \E snap \in Snapshots : RefreshResolve(snap)
  \/ RefreshFail

\* The reconnect specification with its scheduling: a fetch in flight
\* settles, the delay of a pending reconnect timer passes, and a timer that
\* keeps coming due runs.
SpecReconnectLive ==
  /\ ReconnectInit
  /\ [][ReconnectNext]_vars
  /\ WF_vars(FetchSettles)
  /\ WF_vars(ReconnectDelayElapses)
  /\ SF_vars(ReconnectTimerFireDue)

\* The connected listener has seen the client come back online and its
\* timer is pending, in a live session.
ReconnectPending == reconnectTimer /\ notesSyncActive

\* A fetch is in flight, or the session is over.
FetchStartedOrOver == fetchInFlight \/ ~notesSyncActive

\* The session numbered s has been torn down or replaced; a session that
\* replaces it starts with a fetch of its own.
SessionOver(s) == sessions # s \/ ~notesSyncActive

\* A reconnect seen with no refresh in flight is followed by a fetch.
C40_IdleReconnectRefreshes ==
  (ReconnectPending /\ ~fetchInFlight) ~> FetchStartedOrOver

\* C40 -- Every offline-to-online transition seen in a live session is
\* eventually followed by a full fetch that starts after it, every fetch
\* settling: with no refresh in flight a fetch starts; with a refresh in
\* flight, that one settles and a fetch starts afterwards.
C40_ReconnectRefetches ==
  /\ (ReconnectPending /\ ~fetchInFlight) ~> FetchStartedOrOver
  /\ \A s \in 0..MaxSessions :
       [](ReconnectPending /\ fetchInFlight /\ sessions = s
            => <>(\/ SessionOver(s)
                  \/ ~fetchInFlight /\ <>(FetchStartedOrOver \/ SessionOver(s))))

====
